---- MODULE Spec2Model ----
(***************************************************************************)
(* The fluent SQL builder of gdct (builder.go) as a state machine.          *)
(*                                                                         *)
(* A Go string that is assembled or searched by the builder (a predicate   *)
(* template, a rendered fragment, the final statement) is a sequence of    *)
(* tokens; the empty string is the empty sequence and white space between  *)
(* tokens is implicit.  The anonymous marker is the token "?", a numbered  *)
(* PostgreSQL placeholder is the token "$n".  Identifiers (table and       *)
(* column names) are single strings, "" being the empty identifier.        *)
(* A bound value (Go's interface{}) is a record tagged with its dynamic    *)
(* type; the builder never inspects it outside AddWhereIfNotEmpty.         *)
(***************************************************************************)
EXTENDS Integers, Sequences, FiniteSets, TLC

\* ---------------------------------------------------------------- bounds
\* Mutator calls chained on one builder in the general specification.
MaxCalls == 2
\* Mutator calls chained on one builder in the SELECT / UPDATE specifications.
MaxChain == 3
\* Values handed to one WhereIn call.
MaxValues == 2

\* The longest query list given to a transaction helper.
MaxQueries == 2
\* The longest template given to ReplacePlaceholders.
MaxTemplate == 3

\* ------------------------------------------------------- dialects, errors
PostgreSQL == "postgres"
MariaDB == "mariadb"
Mysql == "mysql"
Sqlite == "sqlite3"

\* The four supported dialects and one value that DBType.IsValid rejects.
ValidDBTypes == {PostgreSQL, MariaDB, Mysql, Sqlite}
DBTypes == ValidDBTypes \cup {"oracle"}

IsValid(d) == d \in {PostgreSQL, MariaDB, Mysql, Sqlite}

\* Go's nil error; every other error value is its message.
nil == "nil"
ErrEmptyIdentifier == "empty identifier not allowed"
ErrInvalidDBType == "invalid database type"
ErrEmptyTable == "table name cannot be empty"
ErrEmptyCondition == "condition cannot be empty"
ErrDistinctOp == "DISTINCT can only be used with SELECT queries"
ErrAggregateOp == "aggregate functions can only be used with SELECT queries"
ErrAggregateName == "aggregate function name cannot be empty"
ErrAggregateColumn == "invalid column name for aggregate: empty identifier not allowed"
ErrSelectOp == "Select() can only be used with SELECT queries"
ErrBetween == "failed to generate placeholders for BETWEEN"
ErrValuesOp == "Values() can only be used with INSERT operation"
ErrValuesEmpty == "Values() requires at least one column-value pair"
ErrSetOp == "Set() can only be used with UPDATE operation"
ErrSetEmpty == "Set() requires at least one column-value pair"
ErrReturningOp == "Returning() can only be used with INSERT operation"
ErrNoInsertData == "no data provided for INSERT"
ErrNoUpdateData == "no data provided for UPDATE"
ErrUnsupportedOp == "unsupported operation"

\* --------------------------------------------------------- string helpers
\* strings.Contains(text, tok) for a one-token needle.
Contains(text, tok) == \E i \in 1..Len(text) : text[i] = tok

\* strings.Index: the position of the first occurrence of tok (0 if none).
IndexOf(text, tok) ==
  IF Contains(text, tok)
    THEN CHOOSE i \in 1..Len(text) :
           /\ text[i] = tok
           /\ \A j \in 1..(i - 1) : text[j] # tok
    ELSE 0

\* Mutant: strings.Replace(text, old, new, -1), every occurrence is replaced.
ReplaceEvery(text, old, new) ==
  IF Contains(text, old)
    THEN [i \in 1..Len(text) |-> IF text[i] = old THEN new ELSE text[i]]
    ELSE text

\* strings.Replace(text, old, new, 1): only the first occurrence is replaced.
ReplaceFirst(text, old, new) ==
  IF Contains(text, old)
    THEN [text EXCEPT ![IndexOf(text, old)] = new]
    ELSE text

\* strings.Join(parts, sep) for a one-token separator.
RECURSIVE JoinText(_, _)
JoinText(parts, sep) ==
  IF parts = <<>> THEN <<>>
  ELSE IF Len(parts) = 1 THEN parts[1]
  ELSE parts[1] \o <<sep>> \o JoinText(Tail(parts), sep)

\* strings.Join(parts, " "): white space is implicit between tokens.
RECURSIVE Flatten(_)
Flatten(parts) ==
  IF parts = <<>> THEN <<>> ELSE parts[1] \o Flatten(Tail(parts))

\* strings.Split(text, sep) for a one-token separator.
RECURSIVE Split(_, _)
Split(text, sep) ==
  IF ~Contains(text, sep) THEN <<text>>
  ELSE <<SubSeq(text, 1, IndexOf(text, sep) - 1)>>
         \o Split(SubSeq(text, IndexOf(text, sep) + 1, Len(text)), sep)

\* fmt.Sprintf("$%d", n) and "$" + strconv.Itoa(n).
Dollar(n) == "$" \o ToString(n)

\* The numbered placeholders of a text, as placeholderRegexp (\$(\d+)) finds
\* them; the numbers a chain of the bounded length can reach.
DollarRange == 1..(2 * (MaxCalls + MaxChain) + 2)
IsDollar(tok) == \E n \in DollarRange : tok = Dollar(n)
DollarNumber(tok) == CHOOSE n \in DollarRange : tok = Dollar(n)
IsPlaceholder(tok) == tok = "?" \/ IsDollar(tok)

\* The placeholder tokens of a text, read left to right.
Placeholders(text) == SelectSeq(text, IsPlaceholder)

\* The numbers of the numbered placeholders of a text, read left to right.
PlaceholderNumbers(text) ==
  [i \in 1..Len(SelectSeq(text, IsDollar)) |-> DollarNumber(SelectSeq(text, IsDollar)[i])]

\* An interface{} value by dynamic type: the nil interface, a string, a
\* *string (nil or pointing to a string) and an int.
NilValue == [kind |-> "nil"]
StringValue(s) == [kind |-> "string", s |-> s]
NilStringPtr == [kind |-> "*string", isNil |-> TRUE]
StringPtr(s) == [kind |-> "*string", isNil |-> FALSE, s |-> s]
IntValue(n) == [kind |-> "int", n |-> n]

\* ---------------------------------------------------------- dialect adapter
\* Mutant: the empty name is returned like any other.
EscapeIdentifierAnyName(dbType, name) ==
  IF name = "*" THEN [s |-> name, err |-> nil]
  ELSE [s |-> name, err |-> nil]

EscapeIdentifier(dbType, name) ==
  IF name = "*" THEN [s |-> name, err |-> nil]
  ELSE IF name = "" THEN [s |-> "", err |-> ErrEmptyIdentifier]
  ELSE [s |-> name, err |-> nil]

\* strings.ToUpper on the direction words the model supplies.
ToUpper(s) ==
  CASE s \in {"asc", "Asc", "ASC"} -> "ASC"
    [] s \in {"desc", "Desc", "DESC"} -> "DESC"
    [] s = "up" -> "UP"
    [] OTHER -> s

ValidateDirection(dir) ==
  IF ToUpper(dir) \in {"ASC", "DESC"} THEN ToUpper(dir) ELSE "ASC"

\* The loop of ReplacePlaceholders for PostgreSQL: count is the number of
\* markers replaced so far.
RECURSIVE ReplaceLoop(_, _, _)
ReplaceLoop(result, start, count) ==
  IF Contains(result, "?")
    THEN ReplaceLoop(ReplaceFirst(result, "?", Dollar(start + (count + 1) - 1)),
                     start, count + 1)
    ELSE result

\* Mutant: the numbering restarts at 1 whatever the start index.
ReplacePlaceholdersFromOne(dbType, input, start) ==
  IF dbType = PostgreSQL THEN ReplaceLoop(input, 1, 0) ELSE input

ReplacePlaceholders(dbType, input, start) ==
  IF dbType = PostgreSQL THEN ReplaceLoop(input, start, 0) ELSE input

\* Mutant: the numbering starts at 1 whatever the start index.
GeneratePlaceholdersFromOne(dbType, start, count) ==
  JoinText([i \in 1..count |->
              IF dbType = PostgreSQL THEN <<Dollar(i)>> ELSE <<"?">>],
           ",")

GeneratePlaceholders(dbType, start, count) ==
  JoinText([i \in 1..count |->
              IF dbType = PostgreSQL THEN <<Dollar(start + i - 1)>> ELSE <<"?">>],
           ",")

\* Mutant: no column list stays no column list, "*" is not put in its place.
sanitizeColumnsNoDefault(dbType, columns, errRef) ==
  IF \E i \in 1..Len(columns) : EscapeIdentifier(dbType, columns[i]).err # nil
    THEN [cols |-> <<>>, err |-> ErrEmptyIdentifier]
    ELSE [cols |-> [i \in 1..Len(columns) |->
                      <<EscapeIdentifier(dbType, columns[i]).s>>],
          err |-> errRef]

\* sanitizeColumns returns the escaped columns, or nil with *errRef set to the
\* first escape error; the pair is (returned slice, value of *errRef after).
sanitizeColumns(dbType, columns, errRef) ==
  IF Len(columns) = 0 THEN [cols |-> << <<"*">> >>, err |-> errRef]
  ELSE IF \E i \in 1..Len(columns) : EscapeIdentifier(dbType, columns[i]).err # nil
    THEN [cols |-> <<>>, err |-> ErrEmptyIdentifier]
    ELSE [cols |-> [i \in 1..Len(columns) |->
                      <<EscapeIdentifier(dbType, columns[i]).s>>],
          err |-> errRef]

\* ------------------------------------------------------------ the builder
\* A nil map[string]interface{}.
nilMap == [c \in {} |-> 0]

\* The zero value of the QueryBuilder struct.
QueryBuilder ==
  [op |-> "", dbType |-> "", table |-> "", columns |-> <<>>, joins |-> <<>>,
   conditions |-> <<>>, groupBy |-> <<>>, having |-> <<>>, orderBy |-> <<>>,
   limit |-> 0, offset |-> 0, args |-> <<>>, distinct |-> FALSE, err |-> nil,
   data |-> nilMap, returning |-> <<>>]

\* Mutant: the dialect is stored without being validated.
newBuilderAnyDialect(dbType, table, op, columns) ==
  LET qb == [QueryBuilder EXCEPT !.dbType = dbType, !.op = op]
      esc == EscapeIdentifier(dbType, table)
      sc == sanitizeColumns(dbType, columns, nil)
  IN IF table = "" THEN [qb EXCEPT !.err = ErrEmptyTable]
     ELSE IF esc.err # nil THEN [qb EXCEPT !.err = "invalid table name"]
     ELSE [qb EXCEPT !.table = esc.s, !.columns = sc.cols, !.err = sc.err]

newBuilder(dbType, table, op, columns) ==
  LET qb == [QueryBuilder EXCEPT !.dbType = dbType, !.op = op]
      esc == EscapeIdentifier(dbType, table)
      sc == sanitizeColumns(dbType, columns, nil)
  IN IF ~IsValid(dbType) THEN [qb EXCEPT !.err = ErrInvalidDBType]
     ELSE IF table = "" THEN [qb EXCEPT !.err = ErrEmptyTable]
     ELSE IF esc.err # nil THEN [qb EXCEPT !.err = "invalid table name"]
     ELSE [qb EXCEPT !.table = esc.s, !.columns = sc.cols, !.err = sc.err]

BuildSelect(dbType, table, columns) == newBuilder(dbType, table, "SELECT", columns)
BuildInsert(dbType, table) == newBuilder(dbType, table, "INSERT", <<>>)
BuildUpdate(dbType, table) == newBuilder(dbType, table, "UPDATE", <<>>)
BuildDelete(dbType, table) == newBuilder(dbType, table, "DELETE", <<>>)

BuildCountSelect(dbType, table, countColumn) ==
  LET qb == newBuilder(dbType, table, "SELECT", <<>>)
  IN IF qb.err # nil THEN qb
     ELSE [qb EXCEPT !.columns =
             << <<"COUNT", "(", IF countColumn = "" THEN "*" ELSE countColumn, ")">> >>]

NewQueryBuilder(dbType, table, columns) ==
  LET qb == [QueryBuilder EXCEPT !.dbType = dbType]
      esc == EscapeIdentifier(dbType, table)
  IN IF esc.err # nil THEN [qb EXCEPT !.err = esc.err]
     ELSE IF \E i \in 1..Len(columns) : EscapeIdentifier(dbType, columns[i]).err # nil
       THEN [qb EXCEPT !.table = esc.s, !.err = ErrEmptyIdentifier]
     ELSE [qb EXCEPT !.table = esc.s,
                     !.columns = IF Len(columns) = 0 THEN << <<"*">> >>
                                 ELSE [i \in 1..Len(columns) |->
                                         <<EscapeIdentifier(dbType, columns[i]).s>>]]

\* --------------------------------------------------------------- mutators
Distinct(qb) ==
  IF qb.err # nil THEN qb
  ELSE IF qb.op # "SELECT" THEN [qb EXCEPT !.err = ErrDistinctOp]
  ELSE [qb EXCEPT !.distinct = TRUE]

Aggregate(qb, function, column) ==
  IF qb.err # nil THEN qb
  ELSE IF qb.op # "SELECT" THEN [qb EXCEPT !.err = ErrAggregateOp]
  ELSE IF function = "" THEN [qb EXCEPT !.err = ErrAggregateName]
  ELSE IF column = "*"
    THEN [qb EXCEPT !.columns = Append(@, <<function, "(", column, ")">>)]
  ELSE IF EscapeIdentifier(qb.dbType, column).err # nil
    THEN [qb EXCEPT !.err = ErrAggregateColumn]
  ELSE [qb EXCEPT !.columns =
          Append(@, <<function, "(", EscapeIdentifier(qb.dbType, column).s, ")">>)]

Select(qb, columns) ==
  LET sc == sanitizeColumns(qb.dbType, columns, qb.err)
  IN IF qb.err # nil THEN qb
     ELSE IF qb.op # "SELECT" THEN [qb EXCEPT !.err = ErrSelectOp]
     ELSE IF sc.err # nil THEN [qb EXCEPT !.err = sc.err]
     ELSE [qb EXCEPT !.columns = @ \o sc.cols]

\* Mutant: the parenthesised disjunction is appended as one more condition
\* instead of taking the place of the last one.
OrWhereAppending(qb, condition, args) ==
  LET startIdx == Len(qb.args) + 1
      updatedCondition == ReplacePlaceholders(qb.dbType, condition, startIdx)
      n == Len(qb.conditions)
  IN IF qb.err # nil THEN qb
     ELSE IF condition = <<>> THEN [qb EXCEPT !.err = ErrEmptyCondition]
     ELSE IF n > 0
       THEN [qb EXCEPT !.conditions =
                         Append(@, <<"(">> \o @[n] \o <<"OR">> \o updatedCondition \o <<")">>),
                       !.args = @ \o args]
     ELSE [qb EXCEPT !.conditions = Append(@, updatedCondition),
                     !.args = @ \o args]

OrWhere(qb, condition, args) ==
  LET startIdx == Len(qb.args) + 1
      updatedCondition == ReplacePlaceholders(qb.dbType, condition, startIdx)
      n == Len(qb.conditions)
  IN IF qb.err # nil THEN qb
     ELSE IF condition = <<>> THEN [qb EXCEPT !.err = ErrEmptyCondition]
     ELSE IF n > 0
       THEN [qb EXCEPT !.conditions[n] =
                         <<"(">> \o @ \o <<"OR">> \o updatedCondition \o <<")">>,
                       !.args = @ \o args]
     ELSE [qb EXCEPT !.conditions = Append(@, updatedCondition),
                     !.args = @ \o args]

\* LeftJoin, InnerJoin and RightJoin differ only in the keyword they render.
Join(qb, kind, joinTable, onCondition) ==
  LET esc == EscapeIdentifier(qb.dbType, joinTable)
  IN IF qb.err # nil THEN qb
     ELSE IF esc.err # nil THEN [qb EXCEPT !.err = esc.err]
     ELSE [qb EXCEPT !.joins =
             Append(@, <<kind, "JOIN", esc.s, "ON">> \o onCondition)]

LeftJoin(qb, joinTable, onCondition) == Join(qb, "LEFT", joinTable, onCondition)
InnerJoin(qb, joinTable, onCondition) == Join(qb, "INNER", joinTable, onCondition)
RightJoin(qb, joinTable, onCondition) == Join(qb, "RIGHT", joinTable, onCondition)

Where(qb, condition, args) ==
  LET startIdx == Len(qb.args) + 1
      updatedCondition == ReplacePlaceholders(qb.dbType, condition, startIdx)
  IN IF qb.err # nil THEN qb
     ELSE IF condition = <<>> THEN [qb EXCEPT !.err = ErrEmptyCondition]
     ELSE [qb EXCEPT !.conditions = Append(@, updatedCondition),
                     !.args = @ \o args]

WhereIn(qb, column, values) ==
  LET esc == EscapeIdentifier(qb.dbType, column)
      placeholders == GeneratePlaceholders(qb.dbType, Len(qb.args) + 1, Len(values))
  IN IF qb.err # nil THEN qb
     ELSE IF esc.err # nil THEN [qb EXCEPT !.err = esc.err]
     ELSE [qb EXCEPT !.conditions =
                       Append(@, <<esc.s, "IN", "(">> \o placeholders \o <<")">>),
                     !.args = @ \o values]

\* Mutant: one placeholder is asked for instead of two.
WhereBetweenOnePlaceholder(qb, column, start, end) ==
  LET esc == EscapeIdentifier(qb.dbType, column)
      placeholders == GeneratePlaceholders(qb.dbType, Len(qb.args) + 1, 1)
      placeholderSlices == Split(placeholders, ",")
  IN IF qb.err # nil THEN qb
     ELSE IF esc.err # nil THEN [qb EXCEPT !.err = esc.err]
     ELSE IF Len(placeholderSlices) # 2 THEN [qb EXCEPT !.err = ErrBetween]
     ELSE [qb EXCEPT !.conditions =
                       Append(@, <<esc.s, "BETWEEN">> \o placeholderSlices[1]
                                   \o <<"AND">> \o placeholderSlices[2]),
                     !.args = @ \o <<start, end>>]

WhereBetween(qb, column, start, end) ==
  LET esc == EscapeIdentifier(qb.dbType, column)
      placeholders == GeneratePlaceholders(qb.dbType, Len(qb.args) + 1, 2)
      placeholderSlices == Split(placeholders, ",")
  IN IF qb.err # nil THEN qb
     ELSE IF esc.err # nil THEN [qb EXCEPT !.err = esc.err]
     ELSE IF Len(placeholderSlices) # 2 THEN [qb EXCEPT !.err = ErrBetween]
     ELSE [qb EXCEPT !.conditions =
                       Append(@, <<esc.s, "BETWEEN">> \o placeholderSlices[1]
                                   \o <<"AND">> \o placeholderSlices[2]),
                     !.args = @ \o <<start, end>>]

\* Mutant: only the string case is looked at, a *string is always bound.
AddWhereIfNotEmptyStringsOnly(qb, condition, value) ==
  IF value.kind = "nil" THEN qb
  ELSE IF value.kind = "string" /\ value.s = "" THEN qb
  ELSE Where(qb, condition, <<value>>)

AddWhereIfNotEmpty(qb, condition, value) ==
  IF value.kind = "nil" THEN qb
  ELSE IF value.kind = "string" /\ value.s = "" THEN qb
  ELSE IF value.kind = "*string" /\ (value.isNil \/ value.s = "") THEN qb
  ELSE Where(qb, condition, <<value>>)

\* The GroupBy loop: columns before the first failing one are appended.
RECURSIVE GroupByLoop(_, _)
GroupByLoop(qb, columns) ==
  IF columns = <<>> THEN qb
  ELSE IF EscapeIdentifier(qb.dbType, Head(columns)).err # nil
    THEN [qb EXCEPT !.err = EscapeIdentifier(qb.dbType, Head(columns)).err]
  ELSE GroupByLoop([qb EXCEPT !.groupBy =
                      Append(@, EscapeIdentifier(qb.dbType, Head(columns)).s)],
                   Tail(columns))

GroupBy(qb, columns) == IF qb.err # nil THEN qb ELSE GroupByLoop(qb, columns)

Having(qb, condition, args) ==
  LET updatedCondition == ReplacePlaceholders(qb.dbType, condition, Len(qb.args) + 1)
  IN IF qb.err # nil THEN qb
     ELSE [qb EXCEPT !.having = Append(@, updatedCondition),
                     !.args = @ \o args]

\* allowedColumns, a map[string]bool: nil, or the set of its keys.
NilAllowed == [isNil |-> TRUE, keys |-> {}]
Allowed(keys) == [isNil |-> FALSE, keys |-> keys]

\* Mutant: the column is stored without being looked up in allowedColumns.
OrderByUnchecked(qb, column, direction, allowedColumns) ==
  LET dir == ValidateDirection(direction)
      esc == EscapeIdentifier(qb.dbType, column)
  IN IF qb.err # nil THEN qb
     ELSE IF esc.err # nil THEN [qb EXCEPT !.err = esc.err]
     ELSE [qb EXCEPT !.orderBy = <<esc.s, dir>>]

\* Mutant: the new fragment is added to the one already stored.
OrderByAccumulating(qb, column, direction, allowedColumns) ==
  LET dir == ValidateDirection(direction)
      col == IF ~allowedColumns.isNil /\ column \notin allowedColumns.keys
               THEN "id" ELSE column
      esc == EscapeIdentifier(qb.dbType, col)
  IN IF qb.err # nil THEN qb
     ELSE IF esc.err # nil THEN [qb EXCEPT !.err = esc.err]
     ELSE [qb EXCEPT !.orderBy = @ \o <<esc.s, dir>>]

OrderBy(qb, column, direction, allowedColumns) ==
  LET dir == ValidateDirection(direction)
      col == IF ~allowedColumns.isNil /\ column \notin allowedColumns.keys
               THEN "id" ELSE column
      esc == EscapeIdentifier(qb.dbType, col)
  IN IF qb.err # nil THEN qb
     ELSE IF esc.err # nil THEN [qb EXCEPT !.err = esc.err]
     ELSE [qb EXCEPT !.orderBy = <<esc.s, dir>>]

\* Mutant: Limit binds its value when it is called.
LimitBinding(qb, limit) ==
  IF qb.err # nil THEN qb
  ELSE [qb EXCEPT !.limit = limit, !.args = Append(@, IntValue(limit))]

Limit(qb, limit) == IF qb.err # nil THEN qb ELSE [qb EXCEPT !.limit = limit]

Offset(qb, offset) == IF qb.err # nil THEN qb ELSE [qb EXCEPT !.offset = offset]

\* Mutant: Values stores the map without looking at its size.
ValuesOfAnySize(qb, data) ==
  IF qb.err # nil THEN qb
  ELSE IF qb.op # "INSERT" THEN [qb EXCEPT !.err = ErrValuesOp]
  ELSE [qb EXCEPT !.data = data]

Values(qb, data) ==
  IF qb.err # nil THEN qb
  ELSE IF qb.op # "INSERT" THEN [qb EXCEPT !.err = ErrValuesOp]
  ELSE IF Cardinality(DOMAIN data) = 0 THEN [qb EXCEPT !.err = ErrValuesEmpty]
  ELSE [qb EXCEPT !.data = data]

\* Mutant: Set does not look at the operation kind.
SetOnAnyOperation(qb, data) ==
  IF qb.err # nil THEN qb
  ELSE IF Cardinality(DOMAIN data) = 0 THEN [qb EXCEPT !.err = ErrSetEmpty]
  ELSE [qb EXCEPT !.data = data]

Set(qb, data) ==
  IF qb.err # nil THEN qb
  ELSE IF qb.op # "UPDATE" THEN [qb EXCEPT !.err = ErrSetOp]
  ELSE IF Cardinality(DOMAIN data) = 0 THEN [qb EXCEPT !.err = ErrSetEmpty]
  ELSE [qb EXCEPT !.data = data]

Returning(qb, clause) ==
  IF qb.op # "INSERT" THEN [qb EXCEPT !.err = ErrReturningOp]
  ELSE [qb EXCEPT !.returning = clause]

\* ------------------------------------------------------- clause assemblers
\* What Build() returns, (text, args, error), a nil slice being the empty
\* one, together with the receiver as the call leaves it.
Result(qb, sql, args, err) == [sql |-> sql, args |-> args, err |-> err, qb |-> qb]

\* Mutant: LIMIT and OFFSET are rendered for every non-negative value.
buildSelectNonNegative(qb) ==
  LET head == <<"SELECT">> \o (IF qb.distinct THEN <<"DISTINCT">> ELSE <<>>)
                \o JoinText(qb.columns, ",") \o <<"FROM", qb.table>>
                \o (IF Len(qb.joins) > 0 THEN Flatten(qb.joins) ELSE <<>>)
                \o (IF Len(qb.conditions) > 0
                      THEN <<"WHERE">> \o JoinText(qb.conditions, "AND") ELSE <<>>)
                \o (IF Len(qb.groupBy) > 0
                      THEN <<"GROUP BY">>
                             \o JoinText([i \in 1..Len(qb.groupBy) |-> <<qb.groupBy[i]>>], ",")
                      ELSE <<>>)
                \o (IF Len(qb.having) > 0
                      THEN <<"HAVING">> \o JoinText(qb.having, "AND") ELSE <<>>)
                \o (IF qb.orderBy # <<>> THEN <<"ORDER BY">> \o qb.orderBy ELSE <<>>)
      args0 == qb.args
      withLimit == qb.limit >= 0
      sql1 == IF withLimit
                THEN head \o <<"LIMIT", IF qb.dbType = PostgreSQL
                                          THEN Dollar(Len(args0) + 1) ELSE "?">>
                ELSE head
      args1 == IF withLimit THEN Append(args0, IntValue(qb.limit)) ELSE args0
      withOffset == qb.offset >= 0
      sql2 == IF withOffset
                THEN sql1 \o <<"OFFSET", IF qb.dbType = PostgreSQL
                                           THEN Dollar(Len(args1) + 1) ELSE "?">>
                ELSE sql1
      args2 == IF withOffset THEN Append(args1, IntValue(qb.offset)) ELSE args1
  IN Result(qb, sql2, args2, nil)

\* Mutant: the LIMIT and OFFSET values are appended to the builder's own
\* argument list instead of to a copy of it.
buildSelectAccumulating(qb) ==
  LET head == <<"SELECT">> \o (IF qb.distinct THEN <<"DISTINCT">> ELSE <<>>)
                \o JoinText(qb.columns, ",") \o <<"FROM", qb.table>>
                \o (IF Len(qb.joins) > 0 THEN Flatten(qb.joins) ELSE <<>>)
                \o (IF Len(qb.conditions) > 0
                      THEN <<"WHERE">> \o JoinText(qb.conditions, "AND") ELSE <<>>)
                \o (IF Len(qb.groupBy) > 0
                      THEN <<"GROUP BY">>
                             \o JoinText([i \in 1..Len(qb.groupBy) |-> <<qb.groupBy[i]>>], ",")
                      ELSE <<>>)
                \o (IF Len(qb.having) > 0
                      THEN <<"HAVING">> \o JoinText(qb.having, "AND") ELSE <<>>)
                \o (IF qb.orderBy # <<>> THEN <<"ORDER BY">> \o qb.orderBy ELSE <<>>)
      args0 == qb.args
      withLimit == qb.limit > 0
      sql1 == IF withLimit
                THEN head \o <<"LIMIT", IF qb.dbType = PostgreSQL
                                          THEN Dollar(Len(args0) + 1) ELSE "?">>
                ELSE head
      args1 == IF withLimit THEN Append(args0, IntValue(qb.limit)) ELSE args0
      withOffset == qb.offset > 0
      sql2 == IF withOffset
                THEN sql1 \o <<"OFFSET", IF qb.dbType = PostgreSQL
                                           THEN Dollar(Len(args1) + 1) ELSE "?">>
                ELSE sql1
      args2 == IF withOffset THEN Append(args1, IntValue(qb.offset)) ELSE args1
  IN Result([qb EXCEPT !.args = args2], sql2, args2, nil)

buildSelect(qb) ==
  LET head == <<"SELECT">> \o (IF qb.distinct THEN <<"DISTINCT">> ELSE <<>>)
                \o JoinText(qb.columns, ",") \o <<"FROM", qb.table>>
                \o (IF Len(qb.joins) > 0 THEN Flatten(qb.joins) ELSE <<>>)
                \o (IF Len(qb.conditions) > 0
                      THEN <<"WHERE">> \o JoinText(qb.conditions, "AND") ELSE <<>>)
                \o (IF Len(qb.groupBy) > 0
                      THEN <<"GROUP BY">>
                             \o JoinText([i \in 1..Len(qb.groupBy) |-> <<qb.groupBy[i]>>], ",")
                      ELSE <<>>)
                \o (IF Len(qb.having) > 0
                      THEN <<"HAVING">> \o JoinText(qb.having, "AND") ELSE <<>>)
                \o (IF qb.orderBy # <<>> THEN <<"ORDER BY">> \o qb.orderBy ELSE <<>>)
      args0 == qb.args
      withLimit == qb.limit > 0
      sql1 == IF withLimit
                THEN head \o <<"LIMIT", IF qb.dbType = PostgreSQL
                                          THEN Dollar(Len(args0) + 1) ELSE "?">>
                ELSE head
      args1 == IF withLimit THEN Append(args0, IntValue(qb.limit)) ELSE args0
      withOffset == qb.offset > 0
      sql2 == IF withOffset
                THEN sql1 \o <<"OFFSET", IF qb.dbType = PostgreSQL
                                           THEN Dollar(Len(args1) + 1) ELSE "?">>
                ELSE sql1
      args2 == IF withOffset THEN Append(args1, IntValue(qb.offset)) ELSE args1
  IN Result(qb, sql2, args2, nil)

\* The orders in which Go may range over a map with the keys S.
IterationOrders(S) ==
  {o \in [1..Cardinality(S) -> S] : \A i, j \in 1..Cardinality(S) : o[i] = o[j] => i = j}

\* Mutant: the values are collected by a second pass over the map, which
\* visits the entries in another order than the pass that wrote the columns.
buildInsertSecondPass(qb, order) ==
  LET n == Len(order)
      cols == [i \in 1..n |-> <<EscapeIdentifier(qb.dbType, order[i]).s>>]
      placeholders == [i \in 1..n |->
                         IF qb.dbType = PostgreSQL THEN <<Dollar(i)>> ELSE <<"?">>]
      args == [i \in 1..n |-> qb.data[order[n + 1 - i]]]
      query == <<"INSERT INTO", qb.table, "(">> \o JoinText(cols, ",")
                 \o <<")", "VALUES", "(">> \o JoinText(placeholders, ",") \o <<")">>
  IN IF qb.data = nilMap THEN Result(qb, <<>>, <<>>, ErrNoInsertData)
     ELSE IF \E i \in 1..n : EscapeIdentifier(qb.dbType, order[i]).err # nil
       THEN Result(qb, <<>>, <<>>, ErrEmptyIdentifier)
     ELSE IF qb.dbType = PostgreSQL /\ qb.returning # <<>>
       THEN Result(qb, query \o <<"RETURNING">> \o qb.returning, args, nil)
     ELSE Result(qb, query, args, nil)

\* Mutant: RETURNING is rendered whatever the dialect.
buildInsertReturningAlways(qb, order) ==
  LET n == Len(order)
      cols == [i \in 1..n |-> <<EscapeIdentifier(qb.dbType, order[i]).s>>]
      placeholders == [i \in 1..n |->
                         IF qb.dbType = PostgreSQL THEN <<Dollar(i)>> ELSE <<"?">>]
      args == [i \in 1..n |-> qb.data[order[i]]]
      query == <<"INSERT INTO", qb.table, "(">> \o JoinText(cols, ",")
                 \o <<")", "VALUES", "(">> \o JoinText(placeholders, ",") \o <<")">>
  IN IF qb.data = nilMap THEN Result(qb, <<>>, <<>>, ErrNoInsertData)
     ELSE IF \E i \in 1..n : EscapeIdentifier(qb.dbType, order[i]).err # nil
       THEN Result(qb, <<>>, <<>>, ErrEmptyIdentifier)
     ELSE IF qb.returning # <<>>
       THEN Result(qb, query \o <<"RETURNING">> \o qb.returning, args, nil)
     ELSE Result(qb, query, args, nil)

\* buildInsert for one iteration order of qb.data.
buildInsert(qb, order) ==
  LET n == Len(order)
      cols == [i \in 1..n |-> <<EscapeIdentifier(qb.dbType, order[i]).s>>]
      placeholders == [i \in 1..n |->
                         IF qb.dbType = PostgreSQL THEN <<Dollar(i)>> ELSE <<"?">>]
      args == [i \in 1..n |-> qb.data[order[i]]]
      query == <<"INSERT INTO", qb.table, "(">> \o JoinText(cols, ",")
                 \o <<")", "VALUES", "(">> \o JoinText(placeholders, ",") \o <<")">>
  IN IF qb.data = nilMap THEN Result(qb, <<>>, <<>>, ErrNoInsertData)
     ELSE IF \E i \in 1..n : EscapeIdentifier(qb.dbType, order[i]).err # nil
       THEN Result(qb, <<>>, <<>>, ErrEmptyIdentifier)
     ELSE IF qb.dbType = PostgreSQL /\ qb.returning # <<>>
       THEN Result(qb, query \o <<"RETURNING">> \o qb.returning, args, nil)
     ELSE Result(qb, query, args, nil)

\* buildUpdate for one iteration order of qb.data.
buildUpdate(qb, order) ==
  LET n == Len(order)
      setClauses == [i \in 1..n |->
                       <<EscapeIdentifier(qb.dbType, order[i]).s, "=",
                         IF qb.dbType = PostgreSQL THEN Dollar(i) ELSE "?">>]
      updateArgs == [i \in 1..n |-> qb.data[order[i]]]
      query == <<"UPDATE", qb.table, "SET">> \o JoinText(setClauses, ",")
  IN IF qb.data = nilMap THEN Result(qb, <<>>, <<>>, ErrNoUpdateData)
     ELSE IF \E i \in 1..n : EscapeIdentifier(qb.dbType, order[i]).err # nil
       THEN Result(qb, <<>>, <<>>, ErrEmptyIdentifier)
     ELSE IF Len(qb.conditions) > 0
       THEN Result(qb, query \o <<"WHERE">> \o JoinText(qb.conditions, "AND"),
                   updateArgs \o qb.args, nil)
     ELSE Result(qb, query, updateArgs, nil)

buildDelete(qb) ==
  Result(qb, <<"DELETE FROM", qb.table>>
           \o (IF Len(qb.conditions) > 0
                 THEN <<"WHERE">> \o JoinText(qb.conditions, "AND") ELSE <<>>),
         qb.args, nil)

\* Mutant: a Failed builder's arguments are returned with its error.
BuildLeakingArgs(qb) ==
  IF qb.err # nil THEN {Result(qb, <<>>, qb.args, qb.err)}
  ELSE IF qb.op = "SELECT" THEN {buildSelect(qb)}
  ELSE IF qb.op = "INSERT"
    THEN {buildInsert(qb, o) : o \in IterationOrders(DOMAIN qb.data)}
  ELSE IF qb.op = "UPDATE"
    THEN {buildUpdate(qb, o) : o \in IterationOrders(DOMAIN qb.data)}
  ELSE IF qb.op = "DELETE" THEN {buildDelete(qb)}
  ELSE {Result(qb, <<>>, <<>>, ErrUnsupportedOp)}

\* Mutant: a builder without an operation kind is built as a SELECT.
BuildDefaultingToSelect(qb) ==
  IF qb.err # nil THEN {Result(qb, <<>>, <<>>, qb.err)}
  ELSE IF qb.op = "INSERT"
    THEN {buildInsert(qb, o) : o \in IterationOrders(DOMAIN qb.data)}
  ELSE IF qb.op = "UPDATE"
    THEN {buildUpdate(qb, o) : o \in IterationOrders(DOMAIN qb.data)}
  ELSE IF qb.op = "DELETE" THEN {buildDelete(qb)}
  ELSE {buildSelect(qb)}

\* Build(): the results it can return, one per iteration order of qb.data.
Build(qb) ==
  IF qb.err # nil THEN {Result(qb, <<>>, <<>>, qb.err)}
  ELSE IF qb.op = "SELECT" THEN {buildSelect(qb)}
  ELSE IF qb.op = "INSERT"
    THEN {buildInsert(qb, o) : o \in IterationOrders(DOMAIN qb.data)}
  ELSE IF qb.op = "UPDATE"
    THEN {buildUpdate(qb, o) : o \in IterationOrders(DOMAIN qb.data)}
  ELSE IF qb.op = "DELETE" THEN {buildDelete(qb)}
  ELSE {Result(qb, <<>>, <<>>, ErrUnsupportedOp)}

\* Subquery(subquery, alias) given what subquery.Build() returned: the outer
\* builder afterwards and the string handed back to the caller.
\* Mutant: the error of subquery.Build() is stored before it is tested.
SubqueryStoringNil(qb, sub, alias) ==
  IF sub.err # nil
    THEN [qb |-> [qb EXCEPT !.err = sub.err], ret |-> <<>>]
    ELSE [qb |-> [qb EXCEPT !.err = sub.err, !.args = @ \o sub.args],
          ret |-> <<"(">> \o sub.sql \o <<")", "AS", alias>>]

\* Mutant: the inner arguments are put in front of the outer ones.
SubqueryPrepending(qb, sub, alias) ==
  IF sub.err # nil
    THEN [qb |-> [qb EXCEPT !.err = sub.err], ret |-> <<>>]
    ELSE [qb |-> [qb EXCEPT !.args = sub.args \o @],
          ret |-> <<"(">> \o sub.sql \o <<")", "AS", alias>>]

SubqueryWith(qb, sub, alias) ==
  IF sub.err # nil
    THEN [qb |-> [qb EXCEPT !.err = sub.err], ret |-> <<>>]
    ELSE [qb |-> [qb EXCEPT !.args = @ \o sub.args],
          ret |-> <<"(">> \o sub.sql \o <<")", "AS", alias>>]

Subquery(qb, subquery, alias) == {SubqueryWith(qb, r, alias) : r \in Build(subquery)}

\* ------------------------------------------------------------------ state
VARIABLES
  qb,      \* the builder the caller chains calls on
  result,  \* what the last Build() returned, NoResult since the last mutator call
  last,    \* the mutator call made last: its name and its inputs
  hist,    \* history of the chain: calls made, first recorded error, ...
  budget,  \* the number of mutator calls the caller chains
  peer,    \* the builders of the other dialects that are given the same calls
  db       \* the DataBaseConnector and the transaction helper running on it

vars == <<qb, result, last, hist, budget, peer, db>>

NoResult == [called |-> FALSE]

\* No builder of another dialect follows the calls.
NoPeers == [qb |-> <<>>, result |-> <<>>]

\* No value: a nil result list, a nil *sql.Tx, nothing returned yet.
none == "none"

\* The connector as InitConnection returns it: the pool is open, no method
\* has been called and no transaction helper is running.
Connected ==
  [open |-> TRUE, method |-> "", pc |-> "idle", queryList |-> <<>>, i |-> 0,
   tx |-> none, txResultList |-> <<>>, err |-> nil,
   ret |-> [results |-> <<>>, err |-> nil], calls |-> 0]
Returned(r) == [called |-> TRUE, sql |-> r.sql, args |-> r.args, err |-> r.err]

\* ----------------------------------------------------------------- inputs
\* The inputs of the general specification: for each mutator an input it
\* accepts and, where it validates, one it rejects.
NumMarkers(text) == Cardinality({i \in 1..Len(text) : text[i] = "?"})

\* A predicate call: its template and the number of arguments supplied.
Predicate(condition, n) == [condition |-> condition, n |-> n]

\* The empty template, templates with no, one and two markers and as many
\* arguments, and a call that supplies fewer arguments than markers.
Predicates ==
  {Predicate(<<>>, 0),
   Predicate(<<"active">>, 0),
   Predicate(<<"age", ">", "?">>, 1),
   Predicate(<<"n", "BETWEEN", "?", "AND", "?">>, 2),
   Predicate(<<"age", ">", "?">>, 0)}

\* The j-th argument of the c-th call of the chain is the int 10c + j, so
\* every supplied argument is told apart from every other.
CallArgs(n) == [j \in 1..n |-> IntValue(10 * (hist.calls + 1) + j)]

ColumnNames == {"a", ""}
ColumnLists == {<<"a">>, <<"a", "">>}
OnCondition == <<"u.id", "=", "t.id">>
Limits == {-1, 5}
Offsets == {0, 7}
Clauses == {<<"id">>}
DataMaps ==
  {nilMap,
   [c \in {"a", "b"} |-> IF c = "a" THEN IntValue(101) ELSE IntValue(102)],
   [c \in {""} |-> IntValue(103)]}
IfNotEmptyValues == {StringValue(""), IntValue(7)}

\* Builders handed to Subquery: a SELECT with one bound value and a builder
\* that failed at construction.
InnerBuilders ==
  {Where(BuildSelect(PostgreSQL, "u", <<"a">>), <<"age", ">", "?">>, <<IntValue(91)>>),
   BuildSelect(PostgreSQL, "", <<>>)}

\* The builders the general specification starts from: every operation kind
\* for every dialect, the two other factories, and the failing constructions.
Factories ==
  UNION {{BuildSelect(d, "t", <<>>), BuildInsert(d, "t"), BuildUpdate(d, "t"),
          BuildDelete(d, "t")} : d \in DBTypes}
    \cup {BuildCountSelect(PostgreSQL, "t", ""), NewQueryBuilder(MariaDB, "t", <<>>),
          NewQueryBuilder("oracle", "t", <<>>), NewQueryBuilder(PostgreSQL, "", <<>>),
          BuildSelect(MariaDB, "", <<>>), BuildSelect(PostgreSQL, "t", <<"a", "">>),
          BuildInsert(PostgreSQL, "")}

\* ---------------------------------------------------------------- actions
Start(builders, n) ==
  /\ qb \in builders
  /\ result = NoResult
  /\ last = [op |-> "factory", in |-> <<>>]
  /\ hist = [calls |-> 0, firstErr |-> qb.err, matched |-> TRUE,
             conditions |-> <<>>, having |-> <<>>]
  /\ budget = n
  /\ peer = NoPeers
  /\ db = Connected

Init == Start(Factories, MaxCalls)

\* A mutator call took effect: the builder was Open and stayed Open.
Took(new) == qb.err = nil /\ new.err = nil

\* One chained call, for the mutators that bind no value.
Call(name, in, new) ==
  /\ hist.calls < budget
  /\ qb' = new
  /\ result' = NoResult
  /\ last' = [op |-> name, in |-> in]
  /\ hist' = [hist EXCEPT !.calls = @ + 1,
                          !.firstErr = IF @ = nil THEN new.err ELSE @]
  /\ UNCHANGED <<budget, peer, db>>

\* One chained call that binds values: hist keeps, per stored fragment, the
\* values supplied for its markers, and whether every call was balanced.
Bind(name, in, new, balanced, conditions, having) ==
  /\ hist.calls < budget
  /\ qb' = new
  /\ result' = NoResult
  /\ last' = [op |-> name, in |-> in]
  /\ hist' = [hist EXCEPT !.calls = @ + 1,
                          !.firstErr = IF @ = nil THEN new.err ELSE @,
                          !.matched = @ /\ balanced,
                          !.conditions = IF Took(new) THEN conditions ELSE @,
                          !.having = IF Took(new) THEN having ELSE @]
  /\ UNCHANGED <<budget, peer, db>>

\* hist.conditions after OrWhere: the values join the last fragment's.
Merged(values) ==
  IF Len(hist.conditions) > 0
    THEN [hist.conditions EXCEPT ![Len(hist.conditions)] = @ \o values]
    ELSE Append(hist.conditions, values)

DistinctCall == Call("Distinct", <<>>, Distinct(qb))

AggregateCall ==
  \E function \in {"COUNT", ""} :
    Call("Aggregate", [function |-> function, column |-> "*"],
         Aggregate(qb, function, "*"))

SelectCall ==
  \E columns \in ColumnLists :
    Call("Select", [columns |-> columns], Select(qb, columns))

LeftJoinCall ==
  \E joinTable \in {"u", ""} :
    Call("LeftJoin", [joinTable |-> joinTable], LeftJoin(qb, joinTable, OnCondition))

InnerJoinCall ==
  Call("InnerJoin", [joinTable |-> "u"], InnerJoin(qb, "u", OnCondition))

RightJoinCall ==
  Call("RightJoin", [joinTable |-> "u"], RightJoin(qb, "u", OnCondition))

WhereWith(p) ==
  Bind("Where", [condition |-> p.condition, args |-> CallArgs(p.n)],
       Where(qb, p.condition, CallArgs(p.n)), p.n = NumMarkers(p.condition),
       Append(hist.conditions, CallArgs(p.n)), hist.having)

OrWhereWith(p) ==
  Bind("OrWhere", [condition |-> p.condition, args |-> CallArgs(p.n)],
       OrWhere(qb, p.condition, CallArgs(p.n)), p.n = NumMarkers(p.condition),
       Merged(CallArgs(p.n)), hist.having)

HavingWith(p) ==
  Bind("Having", [condition |-> p.condition, args |-> CallArgs(p.n)],
       Having(qb, p.condition, CallArgs(p.n)), p.n = NumMarkers(p.condition),
       hist.conditions, Append(hist.having, CallArgs(p.n)))

WhereCall == \E p \in Predicates : WhereWith(p)

OrWhereCall == \E p \in Predicates : OrWhereWith(p)

HavingCall == \E p \in Predicates : HavingWith(p)

WhereInCall ==
  \E column \in ColumnNames :
    Bind("WhereIn", [column |-> column, values |-> CallArgs(2)],
         WhereIn(qb, column, CallArgs(2)), TRUE,
         Append(hist.conditions, CallArgs(2)), hist.having)

WhereBetweenCall ==
  \E column \in ColumnNames :
    Bind("WhereBetween", [column |-> column, args |-> CallArgs(2)],
         WhereBetween(qb, column, CallArgs(2)[1], CallArgs(2)[2]), TRUE,
         Append(hist.conditions, CallArgs(2)), hist.having)

AddWhereIfNotEmptyWith(condition, value) ==
  Bind("AddWhereIfNotEmpty", [condition |-> condition, value |-> value],
       AddWhereIfNotEmpty(qb, condition, value),
       AddWhereIfNotEmpty(qb, condition, value) = qb \/ NumMarkers(condition) = 1,
       IF AddWhereIfNotEmpty(qb, condition, value) = qb
         THEN hist.conditions ELSE Append(hist.conditions, <<value>>),
       hist.having)

AddWhereIfNotEmptyCall ==
  \E value \in IfNotEmptyValues : AddWhereIfNotEmptyWith(<<"age", ">", "?">>, value)

GroupByCall ==
  \E columns \in ColumnLists :
    Call("GroupBy", [columns |-> columns], GroupBy(qb, columns))

OrderByWith(column, direction, allowed) ==
  Call("OrderBy", [column |-> column, direction |-> direction, allowed |-> allowed],
       OrderBy(qb, column, direction, allowed))

OrderByCall ==
  \/ OrderByWith("a", "desc", NilAllowed)
  \/ OrderByWith("", "asc", NilAllowed)

LimitCall == \E limit \in Limits : Call("Limit", [limit |-> limit], Limit(qb, limit))

OffsetCall ==
  \E offset \in Offsets : Call("Offset", [offset |-> offset], Offset(qb, offset))

ValuesCall == \E data \in DataMaps : Call("Values", [data |-> data], Values(qb, data))

SetCall == \E data \in DataMaps : Call("Set", [data |-> data], Set(qb, data))

ReturningCall ==
  \E clause \in Clauses : Call("Returning", [clause |-> clause], Returning(qb, clause))

SubqueryCall ==
  \E subquery \in InnerBuilders : \E r \in Subquery(qb, subquery, "s") :
    Call("Subquery", [subquery |-> subquery, ret |-> r.ret], r.qb)

\* Build() hands its result to the caller; the builder is the receiver as
\* the assembler left it.
BuildCall ==
  /\ \E r \in Build(qb) : result' = Returned(r) /\ qb' = r.qb
  /\ UNCHANGED <<last, hist, budget, peer, db>>

Next ==
  \/ DistinctCall \/ AggregateCall \/ SelectCall
  \/ LeftJoinCall \/ InnerJoinCall \/ RightJoinCall
  \/ WhereCall \/ OrWhereCall \/ HavingCall
  \/ WhereInCall \/ WhereBetweenCall \/ AddWhereIfNotEmptyCall
  \/ GroupByCall \/ OrderByCall \/ LimitCall \/ OffsetCall
  \/ ValuesCall \/ SetCall \/ ReturningCall \/ SubqueryCall
  \/ BuildCall

Spec == Init /\ [][Next]_vars

\* ----------------------------------------------------------------- claims
\* C1: a mutator invoked on a builder whose error is already set leaves every
\* field of the builder unchanged, the error included.
C1_FailedBuilderFrozen == [][qb.err # nil => qb' = qb]_vars

\* C2: once a call has failed, Build() returns the error recorded by the first
\* failing call, whatever was chained after it.
C2_BuildReturnsFirstError ==
  (result.called /\ hist.firstErr # nil) => result.err = hist.firstErr

\* C3: a recorded error is never cleared: a builder that has ever recorded an
\* error is still Failed, and Build() on it returns an error.
C3_FailedIsIrreversible ==
  hist.firstErr # nil => (qb.err # nil /\ (result.called => result.err # nil))

\* C3 witness: Build() was called after a later call overwrote the first error.
C3_Witness ==
  /\ result.called
  /\ hist.firstErr # nil
  /\ qb.err # hist.firstErr
  /\ last.op \in {"Returning", "Subquery"}

\* C4: Build() never returns text or arguments together with an error.
C4_BuildAllOrNothing ==
  (result.called /\ result.err # nil) => (result.sql = <<>> /\ result.args = <<>>)

\* C4 witness: Build() failed on a builder that holds bound arguments.
C4_Witness ==
  /\ result.called
  /\ result.err # nil
  /\ Len(qb.args) > 0

\* C5 and its amendment: what a balanced Where or Having call on an Open
\* builder must leave behind.  The fragment expected for a template: the i-th
\* marker becomes the token for the start index plus i - 1 (PostgreSQL) or
\* stays the anonymous marker (MariaDB, Mysql, Sqlite).
ExpectedFragment(dbType, tpl, s) ==
  [i \in 1..Len(tpl) |->
     IF tpl[i] = "?" /\ dbType = PostgreSQL
       THEN Dollar(s + NumMarkers(SubSeq(tpl, 1, i)) - 1)
       ELSE tpl[i]]

\* The step is a Where or Having call on an Open builder with as many
\* arguments as the template has markers.
BalancedPredicateStep ==
  /\ hist'.calls = hist.calls + 1
  /\ qb.err = nil
  /\ last'.op \in {"Where", "Having"}
  /\ Len(last'.in.args) = NumMarkers(last'.in.condition)

\* After such a step: the arguments are appended in order, one fragment is
\* stored, and its k placeholder tokens are $s..$s+k-1 or k anonymous markers.
PredicateBound ==
  LET tpl == last'.in.condition
      k == NumMarkers(tpl)
      s == Len(qb.args) + 1
      frag == ExpectedFragment(qb.dbType, tpl, s)
  IN /\ qb'.err = nil
     /\ qb'.args = qb.args \o last'.in.args
     /\ Len(qb'.args) = Len(qb.args) + k
     /\ IF last'.op = "Where"
          THEN qb'.conditions = Append(qb.conditions, frag) /\ qb'.having = qb.having
          ELSE qb'.having = Append(qb.having, frag) /\ qb'.conditions = qb.conditions
     /\ Placeholders(frag) =
          [i \in 1..k |-> IF qb.dbType = PostgreSQL THEN Dollar(s + i - 1) ELSE "?"]
     /\ qb.dbType # PostgreSQL => frag = tpl

\* C5 as claimed: for every dialect and every template with k markers, Where
\* or Having with k arguments on an Open builder appends the k arguments and
\* stores a fragment whose k placeholders are $s..$s+k-1 (PostgreSQL) or the
\* template's own markers.
C5_PredicateBindsMarkers == [][BalancedPredicateStep => PredicateBound]_vars

\* C5 as amended: the same for every template except the empty one given to
\* Where, which Where rejects (Having stores it).
C5_NonEmptyPredicateBindsMarkers ==
  [][(BalancedPredicateStep /\ (last'.op = "Having" \/ last'.in.condition # <<>>))
       => PredicateBound]_vars

\* C5 witness: a PostgreSQL builder that already held arguments took a Where
\* call with two markers and two arguments.
C5_Witness ==
  /\ last.op = "Where"
  /\ qb.err = nil
  /\ qb.dbType = PostgreSQL
  /\ NumMarkers(last.in.condition) = 2
  /\ Len(last.in.args) = 2
  /\ Len(qb.args) > 2

\* C6: on an Open builder the argument list is as long as the number of
\* placeholder tokens in the stored conditions and having fragments (here
\* even when every predicate call supplied as many arguments as markers).
C6_ArgsMatchPlaceholders ==
  (qb.err = nil /\ hist.matched)
    => Len(qb.args) = Len(Placeholders(Flatten(qb.conditions) \o Flatten(qb.having)))

\* ------------------------------------------------ SELECT and UPDATE chains
\* Chains of predicate, grouping and paging calls on a SELECT builder.
InitSelect == Start({BuildSelect(d, "t", <<>>) : d \in ValidDBTypes}, MaxChain)

NextSelect ==
  \/ WhereCall \/ OrWhereCall \/ WhereInCall \/ WhereBetweenCall
  \/ GroupByCall \/ HavingCall \/ LimitCall \/ OffsetCall
  \/ BuildCall

SpecSelect == InitSelect /\ [][NextSelect]_vars

\* Chains of Set and predicate calls on an UPDATE builder.
InitUpdate == Start({BuildUpdate(d, "t") : d \in ValidDBTypes}, MaxChain)

NextUpdate ==
  \/ SetCall \/ WhereCall \/ OrWhereCall \/ WhereInCall \/ WhereBetweenCall
  \/ HavingCall \/ BuildCall

SpecUpdate == InitUpdate /\ [][NextUpdate]_vars

\* Build() returned a statement for a chain of balanced predicate calls.
BuiltBalanced == result.called /\ result.err = nil /\ hist.matched

\* C7: in the text of a built PostgreSQL SELECT the placeholder numbers, read
\* left to right, are exactly 1..N, N the number of returned arguments.
C7_SelectNumbersAscend ==
  (BuiltBalanced /\ qb.dbType = PostgreSQL /\ qb.op = "SELECT")
    => PlaceholderNumbers(result.sql) = [i \in 1..Len(result.args) |-> i]

\* The values supplied for the markers of a built SELECT, in the order the
\* markers appear in its text: WHERE fragments, HAVING fragments, LIMIT, OFFSET.
ValuesInTextOrder ==
  Flatten(hist.conditions) \o Flatten(hist.having)
    \o (IF qb.limit > 0 THEN <<IntValue(qb.limit)>> ELSE <<>>)
    \o (IF qb.offset > 0 THEN <<IntValue(qb.offset)>> ELSE <<>>)

\* C8: for MariaDB, Mysql and Sqlite the text of a built SELECT holds one '?'
\* per returned argument, and the i-th returned argument is the value
\* supplied for the i-th '?' of the text.
C8_MarkersFollowArguments ==
  (BuiltBalanced /\ qb.dbType # PostgreSQL /\ qb.op = "SELECT")
    => /\ Placeholders(result.sql) = [i \in 1..Len(result.args) |-> "?"]
       /\ result.args = ValuesInTextOrder

\* C9: in the text of a built PostgreSQL UPDATE with SET assignments and WHERE
\* conditions the placeholder numbers strictly increase from left to right.
C9_UpdateNumbersAscend ==
  (BuiltBalanced /\ qb.dbType = PostgreSQL /\ qb.op = "UPDATE" /\ Len(qb.conditions) > 0)
    => \A i, j \in 1..Len(PlaceholderNumbers(result.sql)) :
         i < j => PlaceholderNumbers(result.sql)[i] < PlaceholderNumbers(result.sql)[j]

\* The SET values of a built UPDATE in the order of its assignments: the i-th
\* assignment "col = p" starts at token 4i of "UPDATE t SET ...".
SetValuesInTextOrder ==
  [i \in 1..Cardinality(DOMAIN qb.data) |-> qb.data[result.sql[4 * i]]]

\* C10: a built UPDATE returns the SET values in the order of the assignments
\* in its text, then the arguments the Where-family calls accumulated in call
\* order, and nothing else.
C10_UpdateArgsAreSetThenWhere ==
  (result.called /\ result.err = nil /\ qb.op = "UPDATE")
    => /\ result.args = SetValuesInTextOrder \o Flatten(hist.conditions)
       /\ Len(result.args) = Cardinality(DOMAIN qb.data) + Len(Flatten(hist.conditions))

\* ------------------------------------------------------ INSERT and UPDATE
\* Build() returned an INSERT or UPDATE statement for the stored data.
BuiltFromData == result.called /\ result.err = nil /\ qb.op \in {"INSERT", "UPDATE"}

\* The i-th column name and the i-th placeholder token of the statement:
\* "INSERT INTO t ( c1 , c2 ) VALUES ( p1 , p2 )" and
\* "UPDATE t SET c1 = p1 , c2 = p2 ...".
ColumnInText(i) ==
  IF qb.op = "INSERT" THEN result.sql[2 + 2 * i] ELSE result.sql[4 * i]

PlaceholderInText(i) ==
  IF qb.op = "INSERT"
    THEN result.sql[4 + 2 * Cardinality(DOMAIN qb.data) + 2 * i]
    ELSE result.sql[4 * i + 2]

\* C11: in a built INSERT, and in the SET part of a built UPDATE, whatever the
\* iteration order of the data map, the i-th column of the text, the i-th
\* placeholder and the i-th returned argument belong to one entry of data,
\* and every entry appears exactly once.
C11_ColumnsPlaceholdersArgsAligned ==
  BuiltFromData =>
    LET n == Cardinality(DOMAIN qb.data)
    IN /\ Len(result.args) >= n
       /\ \A i \in 1..n :
            /\ ColumnInText(i) \in DOMAIN qb.data
            /\ result.args[i] = qb.data[ColumnInText(i)]
            /\ PlaceholderInText(i) = (IF qb.dbType = PostgreSQL THEN Dollar(i) ELSE "?")
       /\ {ColumnInText(i) : i \in 1..n} = DOMAIN qb.data
       /\ Len(Placeholders(result.sql)) >= n
       /\ qb.op = "INSERT" => (Len(result.args) = n /\ Len(Placeholders(result.sql)) = n)

\* C11 witness: an INSERT was built with its two columns in the order b, a.
C11_Witness ==
  /\ BuiltFromData
  /\ qb.op = "INSERT"
  /\ Cardinality(DOMAIN qb.data) = 2
  /\ ColumnInText(1) = "b"
  /\ result.args = <<IntValue(102), IntValue(101)>>

\* C12: INSERT and UPDATE assembly is a function of the builder alone: a
\* Build() call that follows a successful Build() call on the same builder
\* with two or more columns returns the same text and the same arguments.
C12_DataOrderIsStable ==
  [][(BuiltFromData /\ result'.called /\ qb' = qb /\ Cardinality(DOMAIN qb.data) >= 2)
       => (result'.sql = result.sql /\ result'.args = result.args)]_vars

\* ------------------------------------------------- predicates and gating
\* The step is the call of the named mutator on an Open builder.
CallOnOpen(names) ==
  /\ hist'.calls = hist.calls + 1
  /\ qb.err = nil
  /\ last'.op \in names

C14_EmptyTemplateRejected ==
  [][(CallOnOpen({"Where", "OrWhere", "Having"}) /\ last'.in.condition = <<>>)
       => /\ qb'.err = ErrEmptyCondition
          /\ qb'.conditions = qb.conditions
          /\ qb'.having = qb.having
          /\ qb'.args = qb.args]_vars

\* The operation kind each gated mutator requires.
RequiredOp(name) ==
  CASE name = "Values" -> "INSERT"
    [] name = "Set" -> "UPDATE"
    [] name = "Returning" -> "INSERT"
    [] name = "Distinct" -> "SELECT"

\* C15: Values, Set, Returning and Distinct called on an Open builder of
\* another operation kind than the one they require record an error and
\* change no other field; they leave the builder Open only on the kind they
\* require.
C15_OperationGatesMutators ==
  [][CallOnOpen({"Values", "Set", "Returning", "Distinct"}) =>
       /\ qb.op # RequiredOp(last'.op) =>
            (qb'.err # nil /\ qb' = [qb EXCEPT !.err = qb'.err])
       /\ qb'.err = nil => qb.op = RequiredOp(last'.op)]_vars

\* C15 witness: Set was called on an Open INSERT builder that held data and
\* failed it, the data staying as Values stored it.
C15_Witness ==
  /\ last.op = "Set"
  /\ qb.op = "INSERT"
  /\ qb.err = ErrSetOp
  /\ hist.firstErr = ErrSetOp
  /\ Cardinality(DOMAIN qb.data) = 2

\* C16: Build() of an INSERT or UPDATE builder returns a statement only if a
\* non-empty column-value map is stored, and a map is stored only by a Values
\* or Set call that supplied it non-empty; a Values or Set call with the
\* empty map always leaves the builder Failed.
C16_DataRequired ==
  /\ [](BuiltFromData => (qb.data # nilMap /\ Cardinality(DOMAIN qb.data) > 0))
  /\ [][qb'.data # qb.data =>
          /\ last'.op \in {"Values", "Set"}
          /\ qb'.data = last'.in.data
          /\ Cardinality(DOMAIN last'.in.data) > 0]_vars
  /\ [][(hist'.calls = hist.calls + 1 /\ last'.op \in {"Values", "Set"}
            /\ Cardinality(DOMAIN last'.in.data) = 0)
          => qb'.err # nil]_vars

\* C16 witness: Build() of an INSERT builder failed for want of data although
\* a condition had been chained.
C16_Witness ==
  /\ result.called
  /\ result.err = ErrNoInsertData
  /\ qb.op = "INSERT"
  /\ Len(qb.conditions) > 0

\* ---------------------------------------------------------------- paging
\* Build() returned a SELECT statement.
BuiltSelect == result.called /\ result.err = nil /\ qb.op = "SELECT"

\* The token the dialect uses for the n-th bound value.
TokenFor(dbType, n) == IF dbType = PostgreSQL THEN Dollar(n) ELSE "?"

\* C17: a built SELECT holds LIMIT with a placeholder and an argument exactly
\* when the stored limit is positive, and likewise OFFSET; the LIMIT value
\* follows all accumulated arguments and the OFFSET value follows it, in
\* whatever order Limit and Offset were called; Limit and Offset record no
\* error, whatever the value.
C17_PagingAppendsLast ==
  /\ [](BuiltSelect =>
          LET k == Len(qb.args)
              lim == qb.limit > 0
              off == qb.offset > 0
              nl == IF lim THEN 1 ELSE 0
              sql == result.sql
          IN /\ Contains(sql, "LIMIT") <=> lim
             /\ Contains(sql, "OFFSET") <=> off
             /\ result.args = qb.args
                                \o (IF lim THEN <<IntValue(qb.limit)>> ELSE <<>>)
                                \o (IF off THEN <<IntValue(qb.offset)>> ELSE <<>>)
             /\ lim => sql[IndexOf(sql, "LIMIT") + 1] = TokenFor(qb.dbType, k + 1)
             /\ off => /\ IndexOf(sql, "OFFSET") = Len(sql) - 1
                       /\ sql[Len(sql)] = TokenFor(qb.dbType, k + nl + 1)
             /\ (lim /\ off) => IndexOf(sql, "LIMIT") = Len(sql) - 3
             /\ (lim /\ ~off) => IndexOf(sql, "LIMIT") = Len(sql) - 1)
  /\ [][CallOnOpen({"Limit", "Offset"}) => qb'.err = nil]_vars

\* C17 witness: a SELECT holding arguments was built after Offset and then
\* Limit were called with positive values.
C17_Witness ==
  /\ BuiltSelect
  /\ last.op = "Limit"
  /\ qb.limit > 0
  /\ qb.offset > 0
  /\ Len(qb.args) > 0
  /\ Len(result.args) = Len(qb.args) + 2

\* C18: Build() changes no field of the builder, and a Build() call that
\* follows a Build() call on a SELECT builder with positive limit and offset
\* returns the same text and the same arguments.
C18_BuildIsPure ==
  [][(result'.called /\ hist' = hist /\ last' = last) =>
       /\ qb' = qb
       /\ (BuiltSelect /\ qb.limit > 0 /\ qb.offset > 0) => result' = result]_vars

\* C18 witness: Build() returned a SELECT with its LIMIT and OFFSET values,
\* and the builder holds neither of them among its arguments.
C18_Witness ==
  /\ BuiltSelect
  /\ qb.limit > 0
  /\ qb.offset > 0
  /\ result.args = qb.args \o <<IntValue(qb.limit), IntValue(qb.offset)>>

\* -------------------------------------------------------------- factories
\* C19: for every supported dialect, BuildSelect with a table and no columns
\* followed directly by Build() returns SELECT * FROM <table>, no argument
\* and no error.
C19_BareSelect ==
  \A d \in ValidDBTypes :
    (result.called /\ hist.calls = 0 /\ qb = BuildSelect(d, "t", <<>>))
      => /\ result.sql = <<"SELECT", "*", "FROM", "t">>
         /\ result.args = <<>>
         /\ result.err = nil

\* C19 witness: Build() was called on a Sqlite SELECT builder fresh from its
\* factory, which was given no column.
C19_Witness ==
  /\ result.called
  /\ hist.calls = 0
  /\ qb.op = "SELECT"
  /\ qb.dbType = Sqlite
  /\ qb.table = "t"
  /\ Len(qb.columns) = 1

\* C20: a builder made by BuildSelect, BuildInsert, BuildUpdate, BuildDelete
\* or BuildCountSelect (the factories that set the operation kind) is Failed
\* or has one of the four dialects and a non-empty table, at construction and
\* in every later state.
C20_OpenBuilderHasDialectAndTable ==
  (qb.op # "" /\ qb.err = nil) => (qb.dbType \in ValidDBTypes /\ qb.table # "")

\* C20 witness: a Mysql DELETE builder is Open after two calls and still has
\* its table.
C20_Witness ==
  /\ qb.op = "DELETE"
  /\ qb.err = nil
  /\ qb.dbType = Mysql
  /\ qb.table = "t"
  /\ hist.calls >= 2

\* ------------------------------------------------- columns and ordering
\* Chains of Select, Aggregate and OrderBy calls on a SELECT builder whose
\* factory was given no column or one column.
InitColumns ==
  Start({BuildSelect(d, "t", columns) : d \in ValidDBTypes, columns \in {<<>>, <<"c">>}},
        MaxChain)

\* Select with no column, with two columns, and with an empty column name.
SelectListCall ==
  \E columns \in {<<>>, <<"a", "b">>, <<"a", "">>} :
    Call("Select", [columns |-> columns], Select(qb, columns))

\* OrderBy with no allow-list, with one that holds the column "a", and with
\* one that also holds the empty name.
OrderByAllowedCall ==
  \E column \in {"a", "x", ""}, direction \in {"desc", "up"},
     allowed \in {NilAllowed, Allowed({"a"}), Allowed({"a", ""})} :
    OrderByWith(column, direction, allowed)

NextColumns == SelectListCall \/ AggregateCall \/ OrderByAllowedCall \/ BuildCall

SpecColumns == InitColumns /\ [][NextColumns]_vars

\* C21: OrderBy given an allow-list that lacks the column records no error
\* and stores the column "id"; whenever OrderBy was given an allow-list and
\* stored a column, that column is a key of the list or "id".
C21_OrderByFallsBackToId ==
  /\ [][(CallOnOpen({"OrderBy"}) /\ ~last'.in.allowed.isNil
            /\ last'.in.column \notin last'.in.allowed.keys)
          => /\ qb'.err = nil
             /\ Len(qb'.orderBy) = 2
             /\ qb'.orderBy[1] = "id"
             /\ qb' = [qb EXCEPT !.orderBy = qb'.orderBy]]_vars
  /\ []((last.op = "OrderBy" /\ qb.err = nil /\ ~last.in.allowed.isNil)
          => /\ qb.orderBy[1] \in last.in.allowed.keys \cup {"id"}
             /\ qb.orderBy[2] \in {"ASC", "DESC"})

\* C21 witness: OrderBy was given the column "x" and an allow-list without
\* it, and the builder is Open with ORDER BY id.
C21_Witness ==
  /\ last.op = "OrderBy"
  /\ last.in.column = "x"
  /\ last.in.allowed = Allowed({"a"})
  /\ qb.err = nil
  /\ qb.orderBy = <<"id", "DESC">>

\* -------------------------------------------------------------- subqueries
\* Inner builders: the two of the general specification and a MariaDB SELECT
\* with two bound values and a limit, whose Build() returns three arguments.
InnerSelects ==
  InnerBuilders
    \cup {Limit(Where(BuildSelect(MariaDB, "u", <<>>),
                      <<"n", "BETWEEN", "?", "AND", "?">>,
                      <<IntValue(92), IntValue(93)>>), 5)}

SubqueryAliasCall ==
  \E subquery \in InnerSelects, alias \in {"s", "x"} :
    \E r \in Subquery(qb, subquery, alias) :
      Call("Subquery", [subquery |-> subquery, alias |-> alias, ret |-> r.ret], r.qb)

\* Chains of Where and Subquery calls on a SELECT builder.
InitSubquery ==
  Start({BuildSelect(d, "t", <<>>) : d \in ValidDBTypes} \cup {BuildSelect(MariaDB, "", <<>>)},
        MaxChain)

NextSubquery == WhereCall \/ SubqueryAliasCall \/ BuildCall

SpecSubquery == InitSubquery /\ [][NextSubquery]_vars

\* C22: Subquery(inner, alias) appends what inner.Build() returned as
\* arguments, in order, after the outer arguments and returns
\* ( innerSQL ) AS alias with the inner placeholder numbers as they are; when
\* inner.Build() fails it returns the empty string and leaves the outer
\* arguments alone.
C22_SubquerySplicesArgs ==
  [][(hist'.calls = hist.calls + 1 /\ last'.op = "Subquery") =>
       \E r \in Build(last'.in.subquery) :
         IF r.err # nil
           THEN /\ last'.in.ret = <<>>
                /\ qb'.args = qb.args
           ELSE /\ qb'.args = qb.args \o r.args
                /\ Len(qb'.args) = Len(qb.args) + Len(r.args)
                /\ last'.in.ret = <<"(">> \o r.sql \o <<")", "AS", last'.in.alias>>
                /\ PlaceholderNumbers(last'.in.ret) = PlaceholderNumbers(r.sql)]_vars

\* C22 witness: a PostgreSQL outer builder that held two arguments spliced
\* the argument of an inner PostgreSQL SELECT, whose text still says $1.
C22_Witness ==
  /\ last.op = "Subquery"
  /\ qb.err = nil
  /\ qb.dbType = PostgreSQL
  /\ Len(qb.args) = 3
  /\ qb.args[3] = IntValue(91)
  /\ Contains(last.in.ret, Dollar(1))
  /\ Contains(Flatten(qb.conditions), Dollar(2))

\* ---------------------------------------------------------------- INSERT
\* Chains of Values and Returning calls on an INSERT builder.
InitInsert == Start({BuildInsert(d, "t") : d \in ValidDBTypes}, MaxChain)

\* Returning with a clause, with two columns, and with the empty clause.
ReturningClauseCall ==
  \E clause \in {<<"id">>, <<"id", ",", "a">>, <<>>} :
    Call("Returning", [clause |-> clause], Returning(qb, clause))

NextInsert == ValuesCall \/ ReturningClauseCall \/ BuildCall

SpecInsert == InitInsert /\ [][NextInsert]_vars

\* The number of tokens of INSERT INTO t ( c1 , .. ) VALUES ( p1 , .. ).
InsertLength == 4 * Cardinality(DOMAIN qb.data) + 5

\* C23: the text of a built INSERT ends with RETURNING and the stored clause
\* exactly when the dialect is PostgreSQL and the stored clause is not empty;
\* otherwise, and always for MariaDB, Mysql and Sqlite, it ends with the
\* closing parenthesis of the VALUES list.
C23_ReturningOnlyForPostgres ==
  (result.called /\ result.err = nil /\ qb.op = "INSERT") =>
    /\ Len(result.sql) >= InsertLength
    /\ result.sql[InsertLength] = ")"
    /\ IF qb.dbType = PostgreSQL /\ qb.returning # <<>>
         THEN SubSeq(result.sql, InsertLength + 1, Len(result.sql))
                = <<"RETURNING">> \o qb.returning
         ELSE Len(result.sql) = InsertLength /\ ~Contains(result.sql, "RETURNING")

\* C23 witness: a MariaDB INSERT was built while a returning clause is stored.
C23_Witness ==
  /\ result.called
  /\ result.err = nil
  /\ qb.op = "INSERT"
  /\ qb.dbType = MariaDB
  /\ qb.returning = <<"id">>

\* ----------------------------------------------------------------- WhereIn
\* WhereIn with no value up to MaxValues values.
WhereInSizedCall ==
  \E column \in ColumnNames, n \in 0..MaxValues :
    Bind("WhereIn", [column |-> column, values |-> CallArgs(n)],
         WhereIn(qb, column, CallArgs(n)), TRUE,
         Append(hist.conditions, CallArgs(n)), hist.having)

\* Chains of Where and WhereIn calls on SELECT and DELETE builders.
InitWhereIn ==
  Start({BuildSelect(d, "t", <<>>) : d \in ValidDBTypes}
          \cup {BuildDelete(d, "t") : d \in ValidDBTypes}, MaxChain)

NextWhereIn == WhereCall \/ WhereInSizedCall \/ BuildCall

SpecWhereIn == InitWhereIn /\ [][NextWhereIn]_vars

\* The condition col IN ( p1 , ... , pn ) for a builder that holds k
\* arguments: the odd positions of the list are placeholders, the even ones
\* commas.
ExpectedIn(dbType, col, k, n) ==
  <<col, "IN", "(">>
    \o [j \in 1..(IF n = 0 THEN 0 ELSE 2 * n - 1) |->
          IF j % 2 = 1 THEN TokenFor(dbType, k + (j + 1) \div 2) ELSE ","]
    \o <<")">>

\* C24: WhereIn with a non-empty column and n >= 0 values on an Open builder
\* appends the one condition col IN ( p1 , ... , pn ), numbered from the
\* previous number of arguments plus one for PostgreSQL and '?' otherwise,
\* appends the n values in order, and changes nothing else.
C24_WhereInAppendsList ==
  [][(CallOnOpen({"WhereIn"}) /\ last'.in.column # "") =>
       LET n == Len(last'.in.values)
       IN /\ qb'.conditions =
               Append(qb.conditions,
                      ExpectedIn(qb.dbType, last'.in.column, Len(qb.args), n))
          /\ Len(Placeholders(qb'.conditions[Len(qb'.conditions)])) = n
          /\ qb'.args = qb.args \o last'.in.values
          /\ qb' = [qb EXCEPT !.conditions = qb'.conditions, !.args = qb'.args]]_vars

\* C24 witness: WhereIn with two values was called on a PostgreSQL builder
\* that already held two arguments, and the list reads $3 , $4.
C24_Witness ==
  /\ last.op = "WhereIn"
  /\ qb.err = nil
  /\ qb.dbType = PostgreSQL
  /\ Len(last.in.values) = 2
  /\ Len(qb.args) = 4
  /\ qb.conditions[Len(qb.conditions)] = <<"a", "IN", "(", Dollar(3), ",", Dollar(4), ")">>

\* C25: the column list of a SELECT builder is the factory's columns, "*" when
\* the factory was given none, followed by the columns of each Select and
\* Aggregate call in call order, and Build() renders that list.
C25_ColumnsInCallOrder ==
  /\ []((hist.calls = 0 /\ qb.err = nil) => qb.columns \in {<< <<"*">> >>, << <<"c">> >>})
  /\ [][(CallOnOpen({"Select"}) /\ qb'.err = nil)
          => qb'.columns = qb.columns
                             \o [i \in 1..Len(last'.in.columns) |-> <<last'.in.columns[i]>>]]_vars
  /\ [][(CallOnOpen({"Aggregate"}) /\ qb'.err = nil)
          => qb'.columns = Append(qb.columns,
                                  <<last'.in.function, "(", last'.in.column, ")">>)]_vars
  /\ [](BuiltSelect
          => LET head == <<"SELECT">> \o JoinText(qb.columns, ",") \o <<"FROM", qb.table>>
             IN SubSeq(result.sql, 1, Len(head)) = head)

\* ------------------------------------------------- one chain, four dialects
\* The dialects whose placeholder is the anonymous marker.
AnonymousDBTypes == {MariaDB, Mysql, Sqlite}

\* The calls given to the four builders: a name and its inputs.
Mutations ==
  {[op |-> "Where", condition |-> <<"age", ">", "?">>, args |-> CallArgs(1)],
   [op |-> "Where", condition |-> <<>>, args |-> <<>>],
   [op |-> "OrWhere", condition |-> <<"n", "BETWEEN", "?", "AND", "?">>, args |-> CallArgs(2)],
   [op |-> "Having", condition |-> <<"age", ">", "?">>, args |-> CallArgs(1)],
   [op |-> "WhereIn", column |-> "a", values |-> CallArgs(2)],
   [op |-> "WhereBetween", column |-> "a", args |-> CallArgs(2)],
   [op |-> "GroupBy", columns |-> <<"a">>],
   [op |-> "OrderBy", column |-> "a", direction |-> "desc"],
   [op |-> "Limit", limit |-> 5],
   [op |-> "Offset", offset |-> 7],
   [op |-> "Distinct"],
   [op |-> "Values", data |-> [c \in {"a", "b"} |-> IF c = "a" THEN IntValue(101) ELSE IntValue(102)]],
   [op |-> "Set", data |-> [c \in {"a"} |-> IntValue(101)]]}

\* The call m made on the builder b.
Apply(m, b) ==
  CASE m.op = "Where" -> Where(b, m.condition, m.args)
    [] m.op = "OrWhere" -> OrWhere(b, m.condition, m.args)
    [] m.op = "Having" -> Having(b, m.condition, m.args)
    [] m.op = "WhereIn" -> WhereIn(b, m.column, m.values)
    [] m.op = "WhereBetween" -> WhereBetween(b, m.column, m.args[1], m.args[2])
    [] m.op = "GroupBy" -> GroupBy(b, m.columns)
    [] m.op = "OrderBy" -> OrderBy(b, m.column, m.direction, NilAllowed)
    [] m.op = "Limit" -> Limit(b, m.limit)
    [] m.op = "Offset" -> Offset(b, m.offset)
    [] m.op = "Distinct" -> Distinct(b)
    [] m.op = "Values" -> Values(b, m.data)
    [] m.op = "Set" -> Set(b, m.data)

\* The same factory call for the four dialects: qb is the PostgreSQL builder,
\* peer.qb holds the three others.
InitDialects ==
  \E op \in {"SELECT", "INSERT", "UPDATE", "DELETE"} :
    /\ qb = newBuilder(PostgreSQL, "t", op, <<>>)
    /\ peer = [qb |-> [d \in AnonymousDBTypes |-> newBuilder(d, "t", op, <<>>)],
               result |-> <<>>]
    /\ result = NoResult
    /\ last = [op |-> "factory", in |-> <<>>]
    /\ hist = [calls |-> 0, firstErr |-> qb.err, matched |-> TRUE,
               conditions |-> <<>>, having |-> <<>>]
    /\ budget = MaxCalls
    /\ db = Connected

\* One call made on each of the four builders.
LockStepCall ==
  \E m \in Mutations :
    /\ hist.calls < budget
    /\ qb' = Apply(m, qb)
    /\ peer' = [qb |-> [d \in AnonymousDBTypes |-> Apply(m, peer.qb[d])],
                result |-> <<>>]
    /\ result' = NoResult
    /\ last' = [op |-> m.op, in |-> m]
    /\ hist' = [hist EXCEPT !.calls = @ + 1,
                            !.firstErr = IF @ = nil THEN Apply(m, qb).err ELSE @]
    /\ UNCHANGED <<budget, db>>

\* Build() called on each of the four builders, each call ranging over its
\* own data map.
LockStepBuild ==
  \E r \in Build(qb) :
    \E rs \in [AnonymousDBTypes -> UNION {Build(peer.qb[d]) : d \in AnonymousDBTypes}] :
      /\ \A d \in AnonymousDBTypes : rs[d] \in Build(peer.qb[d])
      /\ result' = Returned(r)
      /\ qb' = r.qb
      /\ peer' = [qb |-> [d \in AnonymousDBTypes |-> rs[d].qb],
                  result |-> [d \in AnonymousDBTypes |-> Returned(rs[d])]]
      /\ UNCHANGED <<last, hist, budget, db>>

NextDialects == LockStepCall \/ LockStepBuild

SpecDialects == InitDialects /\ [][NextDialects]_vars

\* A PostgreSQL text with every numbered placeholder replaced by '?'.
Anonymous(text) == [i \in 1..Len(text) |-> IF IsDollar(text[i]) THEN "?" ELSE text[i]]

\* C26: after the same calls, none of them Returning, the MariaDB, Mysql and
\* Sqlite builders return the same text, arguments and error, and the
\* PostgreSQL builder returns the same arguments and, once every $n is
\* replaced by '?', the same text.
C26_DialectsAgree ==
  (result.called /\ peer.result # <<>>) =>
    /\ \A d \in AnonymousDBTypes : peer.result[d] = peer.result[MariaDB]
    /\ result.err = peer.result[MariaDB].err
    /\ result.args = peer.result[MariaDB].args
    /\ Anonymous(result.sql) = peer.result[MariaDB].sql

\* ------------------------------------------------------------ the connector
\* The single-query methods of the connector.
SingleQueryMethods ==
  {"PgCheckConnection", "PgSelectMultiple", "PgSelectSingle", "PgInsertQuery",
   "PgUpdateQuery", "PgDeleteQuery",
   "MrCheckConnection", "MrSelectMultiple", "MrSelectSingle", "MrInsertQuery",
   "MrUpdateQuery", "MrDeleteQuery",
   "QueryBuilderRows", "QueryBuilderOneRow"}

\* The transaction helpers of the three connectors.
PgMultiple == {"PgInsertMultiple", "PgUpdateMultiple", "PgDeleteMultiple"}

MrMultiple == {"MrInsertMultiple", "MrUpdateMultiple", "MrDeleteMultiple"}

SqMultiple == {"SqInsertMultiple", "SqUpdateMultiple", "SqDeleteMultiple"}

MultipleHelpers == PgMultiple \cup MrMultiple \cup SqMultiple

\* The helpers that run a list of statements without parameters in one
\* transaction; their statements are executed without being prepared.
CreateTableHelpers == {"PgCreateTable", "MrCreateTable", "SqCreateTable"}

\* A PreparedQuery is represented by what the database does with it: it is
\* prepared and executed, or its preparation fails, or its execution fails.
Outcomes == {"ok", "prepareErr", "execErr"}

QueryLists == UNION {[1..n -> Outcomes] : n \in 0..MaxQueries}

\* The helpers that return as soon as ExecContext fails.
ReturnsOnExecErr(method) == method # "SqDeleteMultiple"

\* The deferred function of the Pg and Mr helpers calls tx.Rollback()
\* unconditionally; the one of the Sq helpers only when err is set.
DeferredRollsBack(method, err) ==
  method \in PgMultiple \cup MrMultiple \cup {"PgCreateTable", "MrCreateTable"} \/ err # nil

\* Mutant: the Sq helpers do not keep the error either.
RecordedNowhere(method, err) == nil

\* The Sq helpers keep the error in the variable the deferred function reads;
\* the Pg and Mr helpers have no such variable.
Recorded(method, err) == IF method \in SqMultiple \cup {"SqCreateTable"} THEN err ELSE nil

\* What a method returns: its results (the nil slice is the empty one) and
\* its error.
Return(results, err) == [results |-> results, err |-> err]

\* A single-query method runs its statement on the pool and returns the rows
\* or the wrapped error; a closed pool fails every statement.
SingleQueryCall ==
  \E method \in SingleQueryMethods :
    \E queryErr \in IF db.open THEN {nil, "queryErr"} ELSE {"sql: database is closed"} :
      /\ db.pc = "idle"
      /\ db.calls < budget
      /\ db' = [db EXCEPT !.method = method,
                          !.queryList = <<>>,
                          !.i = 0,
                          !.tx = none,
                          !.txResultList = <<>>,
                          !.err = nil,
                          !.ret = IF queryErr = nil
                                    THEN Return(<<"rows">>, nil)
                                    ELSE Return(<<>>, queryErr),
                          !.calls = @ + 1]
      /\ UNCHANGED <<qb, result, last, hist, budget, peer>>

\* A *Multiple or CreateTable helper is entered: connect.Begin() /
\* connect.BeginTx(ctx, nil).
MultipleBegin ==
  \E method \in MultipleHelpers \cup CreateTableHelpers :
    \E queryList \in {l \in QueryLists : method \in CreateTableHelpers
                                          => \A j \in 1..Len(l) : l[j] # "prepareErr"} :
      \E txErr \in IF db.open THEN {nil, "txErr"} ELSE {"sql: database is closed"} :
        /\ db.pc = "idle"
        /\ db.calls < budget
        /\ db' = IF txErr # nil
                   THEN [db EXCEPT !.method = method,
                                   !.queryList = queryList,
                                   !.i = 0,
                                   !.tx = none,
                                   !.txResultList = <<>>,
                                   !.err = Recorded(method, txErr),
                                   !.ret = Return(<<>>, "begin transaction error"),
                                   !.calls = @ + 1]
                   ELSE [db EXCEPT !.method = method,
                                   !.queryList = queryList,
                                   !.pc = "loop",
                                   !.i = 1,
                                   !.tx = "active",
                                   !.txResultList = <<>>,
                                   !.err = nil,
                                   !.ret = Return(<<>>, nil),
                                   !.calls = @ + 1]
        /\ UNCHANGED <<qb, result, last, hist, budget, peer>>

\* One iteration of the loop over queryList: PrepareContext, ExecContext,
\* stmt.Close(), and the append of the statement's result.
MultipleStatement ==
  /\ db.pc = "loop"
  /\ db.i <= Len(db.queryList)
  /\ LET query == db.queryList[db.i]
     IN db' = CASE query = "prepareErr" ->
                     [db EXCEPT !.err = Recorded(db.method, "prepare statement error"),
                                !.ret = Return(<<>>, "prepare statement error"),
                                !.pc = "deferred"]
                [] query = "execErr" /\ ReturnsOnExecErr(db.method) ->
                     [db EXCEPT !.err = Recorded(db.method, "exec prepared statement error"),
                                !.ret = Return(<<>>, "exec prepared statement error"),
                                !.pc = "deferred"]
                [] query = "execErr" /\ ~ReturnsOnExecErr(db.method) ->
                     [db EXCEPT !.err = "exec prepared statement error",
                                !.txResultList = Append(@, nil),
                                !.i = @ + 1]
                [] query = "ok" ->
                     [db EXCEPT !.txResultList = IF db.method \in CreateTableHelpers
                                                    THEN @ ELSE Append(@, "result"),
                                !.i = @ + 1]
  /\ UNCHANGED <<qb, result, last, hist, budget, peer>>

\* tx.Commit() after the loop, and the return statement that follows it.
MultipleCommit ==
  \E commitErr \in {nil, "commitErr"} :
    /\ db.pc = "loop"
    /\ db.i > Len(db.queryList)
    /\ db' = IF commitErr = nil
               THEN [db EXCEPT !.tx = "committed",
                               !.err = nil,
                               !.ret = Return(db.txResultList, nil),
                               !.pc = "deferred"]
               ELSE [db EXCEPT !.tx = "commitFailed",
                               !.err = Recorded(db.method, commitErr),
                               !.ret = Return(<<>>, "commit transaction error"),
                               !.pc = "deferred"]
    /\ UNCHANGED <<qb, result, last, hist, budget, peer>>

\* The deferred function runs and the helper returns; tx.Rollback() of a
\* transaction that is already done leaves it as it is.
MultipleDeferred ==
  /\ db.pc = "deferred"
  /\ db' = [db EXCEPT !.tx = IF DeferredRollsBack(db.method, db.err) /\ @ = "active"
                               THEN "rolledBack"
                               ELSE @,
                      !.pc = "idle"]
  /\ UNCHANGED <<qb, result, last, hist, budget, peer>>

\* The caller closes the pool.
Close ==
  /\ db.pc = "idle"
  /\ db.open
  /\ db' = [db EXCEPT !.open = FALSE]
  /\ UNCHANGED <<qb, result, last, hist, budget, peer>>

\* The caller opens the pool again.
InitConnection ==
  /\ db.pc = "idle"
  /\ ~db.open
  /\ db' = [db EXCEPT !.open = TRUE]
  /\ UNCHANGED <<qb, result, last, hist, budget, peer>>

\* A connector that has just been opened; no builder is involved.
InitConnector ==
  /\ qb = newBuilder(PostgreSQL, "t", "SELECT", <<>>)
  /\ result = NoResult
  /\ last = [op |-> "factory", in |-> <<>>]
  /\ hist = [calls |-> 0, firstErr |-> nil, matched |-> TRUE,
             conditions |-> <<>>, having |-> <<>>]
  /\ budget = MaxCalls
  /\ peer = NoPeers
  /\ db = Connected

NextConnector ==
  \/ SingleQueryCall
  \/ MultipleBegin
  \/ MultipleStatement
  \/ MultipleCommit
  \/ MultipleDeferred
  \/ Close
  \/ InitConnection

SpecConnector == InitConnector /\ [][NextConnector]_vars

\* A *Multiple helper has returned from a transaction it began.
MultipleReturned ==
  /\ db.pc = "idle"
  /\ db.method \in MultipleHelpers
  /\ db.tx # none

\* Some statement of the query list fails.
SomeStatementFails == \E j \in 1..Len(db.queryList) : db.queryList[j] # "ok"

\* C27: a *Multiple helper is atomic over its query list: the transaction is
\* committed only if every statement was prepared and executed without error,
\* and when a statement fails the helper returns with the transaction rolled
\* back, an error and no results.
C27_MultipleIsAtomic ==
  /\ db.tx = "committed" => ~SomeStatementFails
  /\ (MultipleReturned /\ SomeStatementFails) =>
       /\ db.tx = "rolledBack"
       /\ db.ret.err # nil
       /\ db.ret.results = <<>>

\* C29: a single-query method leaves the pool closed when it returns.
C29_SingleQueryCloses ==
  [][(db'.calls = db.calls + 1 /\ db'.method \in SingleQueryMethods) => ~db'.open]_vars

\* The tokens of a list of token sequences.
TokensOf(parts) == UNION {{parts[i][j] : j \in 1..Len(parts[i])} : i \in 1..Len(parts)}

\* C28: in every Open state the table, the columns, the GROUP BY columns, the
\* joined tables and the columns of the WhereIn / WhereBetween conditions are
\* non-empty, and a Build() that succeeds renders no empty identifier: with
\* an empty column key in the data it fails.
C28_IdentifiersNonEmpty ==
  /\ (qb.op # "" /\ qb.err = nil) =>
       /\ qb.table # ""
       /\ "" \notin TokensOf(qb.columns)
       /\ \A i \in 1..Len(qb.groupBy) : qb.groupBy[i] # ""
       /\ "" \notin TokensOf(qb.joins)
       /\ "" \notin TokensOf(qb.conditions)
  /\ (result.called /\ result.err = nil) =>
       /\ \A i \in 1..Len(result.sql) : result.sql[i] # ""
       /\ qb.op \in {"INSERT", "UPDATE"} => "" \notin DOMAIN qb.data
  /\ (result.called /\ qb.err = nil /\ qb.op \in {"INSERT", "UPDATE"}
        /\ "" \in DOMAIN qb.data) => result.err = ErrEmptyIdentifier

\* C28 witness: Build() of an INSERT builder whose data has the empty column
\* key failed with the empty-identifier error.
C28_Witness ==
  /\ result.called
  /\ qb.err = nil
  /\ qb.op = "INSERT"
  /\ "" \in DOMAIN qb.data
  /\ result.err = ErrEmptyIdentifier
  /\ result.sql = <<>>

\* ------------------------------------------- predicates on every operation
\* Chains of predicate, data and paging calls on a builder of each operation
\* kind and dialect.
InitPredicates ==
  Start(UNION {{BuildSelect(d, "t", <<>>), BuildInsert(d, "t"), BuildUpdate(d, "t"),
                BuildDelete(d, "t")} : d \in ValidDBTypes},
        MaxCalls)

NextPredicates ==
  \/ WhereCall \/ HavingCall \/ WhereInCall \/ ValuesCall \/ SetCall \/ LimitCall
  \/ BuildCall

SpecPredicates == InitPredicates /\ [][NextPredicates]_vars

\* C30: whatever the operation kind and the dialect, when Build() succeeds
\* after predicate calls that each supplied as many arguments as markers, the
\* returned text holds as many placeholder tokens as arguments are returned.
C30_PlaceholdersCountArgs ==
  BuiltBalanced => Len(Placeholders(result.sql)) = Len(result.args)

\* ------------------------------------------------------------------ ORDER BY
\* The positions of the ORDER BY keyword in a text.
OrderByAt(text) == {i \in 1..Len(text) : text[i] = "ORDER BY"}

\* C31: a successful OrderBy call leaves exactly one fragment, the column and
\* a direction that is DESC for desc in any letter case and ASC for anything
\* else, whatever fragment was stored before; a built SELECT holds at most
\* one ORDER BY clause, the stored fragment, which after an OrderBy call is
\* that call's.
C31_OneOrderBy ==
  /\ [][(CallOnOpen({"OrderBy"}) /\ qb'.err = nil)
          => /\ Len(qb'.orderBy) = 2
             /\ qb'.orderBy[2] = (IF last'.in.direction \in {"desc", "Desc", "DESC"}
                                    THEN "DESC" ELSE "ASC")
             /\ qb'.orderBy[1] \in {last'.in.column, "id"}]_vars
  /\ [](BuiltSelect
          => /\ Cardinality(OrderByAt(result.sql)) <= 1
             /\ (qb.orderBy = <<>>) = (OrderByAt(result.sql) = {})
             /\ \A i \in OrderByAt(result.sql) :
                  /\ SubSeq(result.sql, i + 1, i + 2) = qb.orderBy
                  /\ result.sql[i + 2] \in {"ASC", "DESC"}
                  /\ last.op = "OrderBy" =>
                       result.sql[i + 1] \in {last.in.column, "id"})

\* C31 witness: a SELECT was built after a second OrderBy call, given the
\* direction "up", and its only ORDER BY clause reads a ASC.
C31_Witness ==
  /\ BuiltSelect
  /\ hist.calls = 2
  /\ last.op = "OrderBy"
  /\ last.in.direction = "up"
  /\ qb.orderBy = <<"a", "ASC">>
  /\ Cardinality(OrderByAt(result.sql)) = 1

\* ------------------------------------------------------------ WhereBetween
\* C32: WhereBetween with a non-empty column on an Open builder records no
\* error, appends the one condition col BETWEEN p1 AND p2, p1 and p2 numbered
\* from the previous number of arguments plus one for PostgreSQL and '?'
\* otherwise, appends start then end, and changes nothing else; the
\* placeholder-generation error is never recorded.
C32_WhereBetweenSucceeds ==
  /\ [][(CallOnOpen({"WhereBetween"}) /\ last'.in.column # "") =>
          /\ qb'.err = nil
          /\ qb'.conditions =
               Append(qb.conditions,
                      <<last'.in.column, "BETWEEN", TokenFor(qb.dbType, Len(qb.args) + 1),
                        "AND", TokenFor(qb.dbType, Len(qb.args) + 2)>>)
          /\ qb'.args = qb.args \o last'.in.args
          /\ Len(last'.in.args) = 2
          /\ qb' = [qb EXCEPT !.conditions = qb'.conditions, !.args = qb'.args]]_vars
  /\ [](qb.err # ErrBetween)

\* C32 witness: WhereBetween was called on a PostgreSQL builder that held two
\* arguments, and its condition reads a BETWEEN $3 AND $4.
C32_Witness ==
  /\ last.op = "WhereBetween"
  /\ qb.err = nil
  /\ qb.dbType = PostgreSQL
  /\ Len(qb.args) = 4
  /\ qb.conditions[Len(qb.conditions)] = <<"a", "BETWEEN", Dollar(3), "AND", Dollar(4)>>

\* --------------------------------------------------- every mutator, chained
\* The values handed to AddWhereIfNotEmpty: the nil interface, the empty and
\* a non-empty string, the nil *string, *string pointing to the empty and to
\* a non-empty string, and the ints 0 and 7.
EmptyableValues ==
  {NilValue, StringValue(""), StringValue("x"), NilStringPtr, StringPtr(""),
   StringPtr("x"), IntValue(0), IntValue(7)}

AddWhereIfNotEmptyAnyCall ==
  \E condition \in {<<"age", ">", "?">>, <<>>}, value \in EmptyableValues :
    AddWhereIfNotEmptyWith(condition, value)

\* Builders of every operation kind, and builders made by NewQueryBuilder:
\* for a valid dialect, for a dialect IsValid rejects, and with a column.
InitMutators ==
  Start(UNION {{BuildSelect(d, "t", <<>>), BuildInsert(d, "t"), BuildUpdate(d, "t"),
                BuildDelete(d, "t")} : d \in {PostgreSQL, MariaDB}}
          \cup {NewQueryBuilder(MariaDB, "t", <<>>), NewQueryBuilder("oracle", "t", <<>>),
                NewQueryBuilder(PostgreSQL, "t", <<"a">>)},
        MaxCalls)

NextMutators ==
  \/ DistinctCall \/ AggregateCall \/ SelectCall
  \/ LeftJoinCall \/ InnerJoinCall \/ RightJoinCall
  \/ WhereCall \/ HavingCall \/ AddWhereIfNotEmptyAnyCall
  \/ GroupByCall \/ OrderByCall \/ LimitCall \/ OffsetCall
  \/ ValuesCall \/ SetCall \/ ReturningCall \/ SubqueryCall
  \/ BuildCall

SpecMutators == InitMutators /\ [][NextMutators]_vars

\* The mutators that bind no value.
Unbinding ==
  {"Select", "Aggregate", "Distinct", "LeftJoin", "InnerJoin", "RightJoin", "GroupBy",
   "OrderBy", "Limit", "Offset", "Values", "Set", "Returning"}

\* C33: a call of a mutator that binds no value leaves the argument list as
\* it was, so that the index of the next placeholder, len(args) + 1, is the
\* same before and after the call.
C33_UnbindingKeepsArgs ==
  [][(hist'.calls = hist.calls + 1 /\ last'.op \in Unbinding)
       => qb'.args = qb.args]_vars

\* C33 witness: Limit(5) took effect on a builder that holds one bound value.
C33_Witness ==
  /\ last.op = "Limit"
  /\ qb.err = nil
  /\ qb.limit = 5
  /\ Len(qb.args) = 1
  /\ ~result.called

\* C34: AddWhereIfNotEmpty given nil, the empty string, a nil *string or a
\* *string pointing to the empty string leaves the builder as it was; given
\* anything else it leaves the builder as Where(condition, value) does, which
\* on an Open builder and a non-empty template appends the value to args.
C34_AddWhereIfNotEmpty ==
  [][(hist'.calls = hist.calls + 1 /\ last'.op = "AddWhereIfNotEmpty")
       => IF last'.in.value \in {NilValue, StringValue(""), NilStringPtr, StringPtr("")}
            THEN qb' = qb
            ELSE /\ qb' = Where(qb, last'.in.condition, <<last'.in.value>>)
                 /\ (qb.err = nil /\ last'.in.condition # <<>>)
                      => /\ qb'.args = Append(qb.args, last'.in.value)
                         /\ Len(qb'.conditions) = Len(qb.conditions) + 1]_vars

\* C34 witness: AddWhereIfNotEmpty bound a *string pointing to a non-empty
\* string on a builder that already held a condition.
C34_Witness ==
  /\ last.op = "AddWhereIfNotEmpty"
  /\ last.in.value = StringPtr("x")
  /\ qb.err = nil
  /\ Len(qb.conditions) = 2
  /\ qb.args[Len(qb.args)] = StringPtr("x")

\* C38: Build() of a builder made by NewQueryBuilder returns no text and no
\* arguments but an error, the unsupported-operation error when no call
\* recorded one; and NewQueryBuilder given a table makes an Open builder
\* whatever the dialect.
C38_NoOperationNeverBuilds ==
  /\ (qb.op = "" /\ result.called)
       => /\ result.err # nil
          /\ result.sql = <<>>
          /\ result.args = <<>>
          /\ hist.firstErr = nil => result.err = ErrUnsupportedOp
          /\ hist.firstErr # nil => result.err = qb.err
  /\ (qb.op = "" /\ hist.calls = 0 /\ qb.table # "") => qb.err = nil

\* C38 witness: a builder made by NewQueryBuilder for a dialect IsValid
\* rejects took a Where call that bound a value, and its Build() returned the
\* unsupported-operation error.
C38_Witness ==
  /\ qb.op = ""
  /\ ~IsValid(qb.dbType)
  /\ last.op = "Where"
  /\ Len(qb.args) = 1
  /\ result.called
  /\ result.err = ErrUnsupportedOp

\* The states of a transaction that Commit or Rollback has ended.
Finished == {"committed", "commitFailed", "rolledBack"}

\* C37: when a CreateTable or *Multiple helper that began a transaction
\* returns, the transaction has been ended, by Commit or by Rollback, whether
\* a statement failed, the commit failed or all went well; and once ended,
\* no later call of the helper ends it again.
C37_TransactionsFinish ==
  /\ []((db.pc = "idle" /\ db.method \in MultipleHelpers \cup CreateTableHelpers
           /\ db.tx # none) => db.tx \in Finished)
  /\ [][(db.tx \in Finished /\ db'.calls = db.calls) => db'.tx = db.tx]_vars
  /\ [][(db.tx = "active" /\ db'.pc = "idle") => db'.tx \in Finished]_vars

\* C37 witness: SqCreateTable returned after its second statement failed,
\* with the transaction rolled back.
C37_Witness ==
  /\ db.pc = "idle"
  /\ db.method = "SqCreateTable"
  /\ db.queryList = <<"ok", "execErr">>
  /\ db.tx = "rolledBack"
  /\ db.ret.err # nil

\* --------------------------------------------------- opening the connection
\* The optional fields of a DBConfig are pointers: <<>> is the nil pointer,
\* <<v>> points to v. Durations are in seconds.
Configs ==
  [SslMode : {<<>>, <<"require">>}, MaxLifeTime : {<<>>, <<30>>},
   MaxIdleConns : {<<>>, <<5>>}, MaxOpenConns : {<<>>, <<10>>}]

\* Mutant: the defaults are written into the configuration of the caller.
decideDefaultConfigsInPlace(cfg, dbType) ==
  LET new == [cfg EXCEPT
                !.MaxLifeTime = IF @ = <<>> THEN <<60>> ELSE @,
                !.MaxIdleConns = IF @ = <<>> THEN <<50>> ELSE @,
                !.MaxOpenConns = IF @ = <<>> THEN <<100>> ELSE @,
                !.SslMode = IF dbType = PostgreSQL /\ @ = <<>> THEN <<"disable">> ELSE @]
  IN [ret |-> new, cfg |-> new]

\* decideDefaultConfigs works on its copy of the struct and points the unset
\* fields of the copy to new values: ret is what it returns, cfg the value of
\* the caller after the call.
decideDefaultConfigs(cfg, dbType) ==
  [ret |-> [cfg EXCEPT
              !.MaxLifeTime = IF @ = <<>> THEN <<60>> ELSE @,
              !.MaxIdleConns = IF @ = <<>> THEN <<50>> ELSE @,
              !.MaxOpenConns = IF @ = <<>> THEN <<100>> ELSE @,
              !.SslMode = IF dbType = PostgreSQL /\ @ = <<>> THEN <<"disable">> ELSE @],
   cfg |-> cfg]

\* What a call of one of the Init...Connection functions leaves: how it ended
\* (connected, an error returned, a nil pointer dereferenced), the dialect
\* of the connector, the SSL mode written into the URL, the pool settings,
\* and the configuration of the caller after the call.
Connection(status, dbType, sslmode, pool, cfg) ==
  [status |-> status, dbType |-> dbType, sslmode |-> sslmode, pool |-> pool, cfg |-> cfg,
   calls |-> db.calls + 1]

\* db.SetMaxOpenConns, db.SetMaxIdleConns and db.SetConnMaxLifetime, each
\* called when its field is set.
PoolOf(cfg) ==
  [MaxOpenConns |-> cfg.MaxOpenConns, MaxIdleConns |-> cfg.MaxIdleConns,
   MaxLifeTime |-> cfg.MaxLifeTime]

\* InitPostgresConnection formats the URL, reading *cfg.SslMode, opens the
\* pool, and then applies the defaults and the pool settings.
InitPostgresConnection(cfg, openErr) ==
  IF cfg.SslMode = <<>> THEN Connection("panic", "", <<>>, <<>>, cfg)
  ELSE IF openErr THEN Connection("error", "", cfg.SslMode, <<>>, cfg)
  ELSE Connection("connected", PostgreSQL, cfg.SslMode,
                  PoolOf(decideDefaultConfigs(cfg, PostgreSQL).ret),
                  decideDefaultConfigs(cfg, PostgreSQL).cfg)

\* InitMariadbConnection serves MariaDB and Mysql; the connector it makes is
\* a MariaDB one.
InitMariadbConnection(cfg, openErr) ==
  IF openErr THEN Connection("error", "", <<>>, <<>>, cfg)
  ELSE Connection("connected", MariaDB, <<>>,
                  PoolOf(decideDefaultConfigs(cfg, MariaDB).ret),
                  decideDefaultConfigs(cfg, MariaDB).cfg)

\* InitSqliteConnection pings the database after the pool settings.
InitSqliteConnection(cfg, openErr, pingErr) ==
  IF openErr THEN Connection("error", "", <<>>, <<>>, cfg)
  ELSE IF pingErr
    THEN Connection("error", "", <<>>, PoolOf(decideDefaultConfigs(cfg, Sqlite).ret),
                    decideDefaultConfigs(cfg, Sqlite).cfg)
  ELSE Connection("connected", "", <<>>, PoolOf(decideDefaultConfigs(cfg, Sqlite).ret),
                  decideDefaultConfigs(cfg, Sqlite).cfg)

\* gdct.InitConnection(dbType, cfg): the connector function of the dialect,
\* or the unsupported-type error.
InitConnectionCall ==
  \E dbType \in DBTypes, cfg \in Configs, openErr \in BOOLEAN, pingErr \in BOOLEAN :
    /\ db.calls < budget
    /\ dbType # Sqlite => ~pingErr
    /\ dbType \notin ValidDBTypes => (~pingErr /\ ~openErr)
    /\ last' = [op |-> "InitConnection", in |-> [dbType |-> dbType, cfg |-> cfg]]
    /\ db' = CASE dbType \in {MariaDB, Mysql} -> InitMariadbConnection(cfg, openErr)
               [] dbType = PostgreSQL -> InitPostgresConnection(cfg, openErr)
               [] dbType = Sqlite -> InitSqliteConnection(cfg, openErr, pingErr)
               [] OTHER -> Connection("error", "", <<>>, <<>>, cfg)
    /\ result' = NoResult
    /\ UNCHANGED <<qb, hist, budget, peer>>

\* decideDefaultConfigs applied to a configuration and a dialect; result
\* holds what it returned, db the configuration of the caller afterwards.
DecideDefaultConfigsCall ==
  \E dbType \in ValidDBTypes, cfg \in Configs :
    /\ db.calls < budget
    /\ last' = [op |-> "decideDefaultConfigs", in |-> [dbType |-> dbType, cfg |-> cfg]]
    /\ result' = [called |-> FALSE, ret |-> decideDefaultConfigs(cfg, dbType).ret]
    /\ db' = Connection("none", "", <<>>, <<>>, decideDefaultConfigs(cfg, dbType).cfg)
    /\ UNCHANGED <<qb, hist, budget, peer>>

\* No connection has been asked for yet.
InitConfigs ==
  /\ qb = newBuilder(PostgreSQL, "t", "SELECT", <<>>)
  /\ result = NoResult
  /\ last = [op |-> "factory", in |-> <<>>]
  /\ hist = [calls |-> 0, firstErr |-> nil, matched |-> TRUE,
             conditions |-> <<>>, having |-> <<>>]
  /\ budget = MaxCalls
  /\ peer = NoPeers
  /\ db = [status |-> "none", dbType |-> "", sslmode |-> <<>>, pool |-> <<>>,
           cfg |-> <<>>, calls |-> 0]

NextConfigs == InitConnectionCall \/ DecideDefaultConfigsCall

SpecConfigs == InitConfigs /\ [][NextConfigs]_vars

\* C35: decideDefaultConfigs returns a configuration whose MaxLifeTime,
\* MaxIdleConns and MaxOpenConns are set, to 60 s, 50 and 100 where the
\* caller left them unset and to the caller's values otherwise, and whose
\* SslMode is the caller's, or "disable" when unset and the dialect is
\* PostgreSQL, unset when unset and the dialect is another; the configuration
\* of the caller is as it was.
C35_DefaultsArePure ==
  last.op = "decideDefaultConfigs" =>
    LET in == last.in.cfg
        out == result.ret
    IN /\ out.MaxLifeTime = (IF in.MaxLifeTime = <<>> THEN <<60>> ELSE in.MaxLifeTime)
       /\ out.MaxIdleConns = (IF in.MaxIdleConns = <<>> THEN <<50>> ELSE in.MaxIdleConns)
       /\ out.MaxOpenConns = (IF in.MaxOpenConns = <<>> THEN <<100>> ELSE in.MaxOpenConns)
       /\ <<>> \notin {out.MaxLifeTime, out.MaxIdleConns, out.MaxOpenConns}
       /\ in.SslMode # <<>> => out.SslMode = in.SslMode
       /\ in.SslMode = <<>> =>
            out.SslMode = (IF last.in.dbType = PostgreSQL THEN <<"disable">> ELSE <<>>)
       /\ db.cfg = in

\* C35 witness: decideDefaultConfigs was given, for PostgreSQL, a
\* configuration with only MaxIdleConns set, and returned it fully populated.
C35_Witness ==
  /\ last.op = "decideDefaultConfigs"
  /\ last.in.dbType = PostgreSQL
  /\ last.in.cfg = [SslMode |-> <<>>, MaxLifeTime |-> <<>>, MaxIdleConns |-> <<5>>,
                    MaxOpenConns |-> <<>>]
  /\ result.ret = [SslMode |-> <<"disable">>, MaxLifeTime |-> <<60>>,
                   MaxIdleConns |-> <<5>>, MaxOpenConns |-> <<100>>]
  /\ db.cfg = last.in.cfg

\* C36: InitConnection for PostgreSQL with SslMode unset dereferences no nil
\* pointer, and when it connects the URL carries the SSL mode "disable".
C36_DefaultsBeforeUse ==
  (last.op = "InitConnection" /\ last.in.dbType = PostgreSQL /\ last.in.cfg.SslMode = <<>>)
    => /\ db.status # "panic"
       /\ db.status = "connected" => db.sslmode = <<"disable">>

\* ------------------------------------------- the loop of ReplacePlaceholders
\* The templates given to ReplacePlaceholders: markers and other tokens.
Templates == UNION {[1..n -> {"?", "a"}] : n \in 0..MaxTemplate}

\* ReplacePlaceholders is entered: result holds its local variables.
InitReplace ==
  /\ qb = newBuilder(PostgreSQL, "t", "SELECT", <<>>)
  /\ \E dbType \in DBTypes, input \in Templates, start \in {-1, 1, 7} :
       /\ last = [op |-> "ReplacePlaceholders",
                  in |-> [dbType |-> dbType, input |-> input, start |-> start]]
       /\ result = [called |-> FALSE, pc |-> "loop", result |-> input, count |-> 0]
  /\ hist = [calls |-> 0, firstErr |-> nil, matched |-> TRUE,
             conditions |-> <<>>, having |-> <<>>]
  /\ budget = MaxCalls
  /\ peer = NoPeers
  /\ db = Connected

\* One iteration of `for strings.Contains(result, "?")`.
ReplaceIteration ==
  /\ result.pc = "loop"
  /\ last.in.dbType = PostgreSQL
  /\ Contains(result.result, "?")
  /\ result' = [result EXCEPT
                  !.count = @ + 1,
                  !.result = ReplaceFirst(@, "?",
                                          Dollar(last.in.start + (result.count + 1) - 1))]
  /\ UNCHANGED <<qb, last, hist, budget, peer, db>>

\* The loop is left (PostgreSQL) or never entered (default case).
ReplaceReturn ==
  /\ result.pc = "loop"
  /\ last.in.dbType = PostgreSQL => ~Contains(result.result, "?")
  /\ result' = [result EXCEPT !.pc = "done"]
  /\ UNCHANGED <<qb, last, hist, budget, peer, db>>

NextReplace == ReplaceIteration \/ ReplaceReturn

\* The function runs on: a step that is possible is eventually taken.
SpecReplace == InitReplace /\ [][NextReplace]_vars /\ WF_vars(NextReplace)

\* C39: ReplacePlaceholders returns for every dialect, template and start
\* index; for PostgreSQL each iteration of its loop leaves one marker fewer
\* and puts a token that is no marker in its place, and the loop has run as
\* many times as the template has markers when it returns; for the other
\* dialects it runs no iteration.
C39_ReplaceTerminates ==
  /\ <>(result.pc = "done")
  /\ [][result'.count = result.count + 1
          => /\ NumMarkers(result'.result) = NumMarkers(result.result) - 1
             /\ Len(result'.result) = Len(result.result)]_vars
  /\ [](result.count + NumMarkers(result.result)
          = NumMarkers(last.in.input))
  /\ [](result.pc = "done"
          => /\ result.count = (IF last.in.dbType = PostgreSQL
                                  THEN NumMarkers(last.in.input) ELSE 0)
             /\ result.result
                  = ReplacePlaceholders(last.in.dbType, last.in.input, last.in.start))

\* C39 witness: ReplacePlaceholders returned for PostgreSQL after three
\* iterations on a template of three markers, numbered from 7.
C39_Witness ==
  /\ result.pc = "done"
  /\ last.in.dbType = PostgreSQL
  /\ last.in.input = <<"?", "?", "?">>
  /\ result.count = 3
  /\ result.result = <<Dollar(7), Dollar(8), Dollar(9)>>
====
